---- MODULE Spec2Model ----
(***************************************************************************)
(* Verification model of the cloud-cost-optimizer analytics and alerting   *)
(* code: AnomalyDetectionService, AnalyticsEngine, AIInsightsEngine, the   *)
(* recommendation controller and CostMonitorService.                       *)
(*                                                                         *)
(* Numbers.  JavaScript numbers are modelled by exact integer arithmetic:  *)
(* a mean is kept as the pair (sum, n), a standard deviation as the sum of *)
(* squared deviations it is the root of, and every comparison of the code  *)
(* is turned into the equivalent comparison of integers (both sides are    *)
(* multiplied by the positive denominators and, where a square root        *)
(* occurs, squared after the sign test).  Rounding of binary floating      *)
(* point is therefore not part of the model.                               *)
(***************************************************************************)
EXTENDS Integers, Sequences, FiniteSets, TLC

\* ------------------------------------------------------------------------
\* Bounds of the model
\* ------------------------------------------------------------------------
MaxDays == 8
MaxPeriod == 9
\* resources per call when the utilization grid is explored
MaxGridResources == 2
\* resources per call when whole result lists are examined
MaxResources == 6
\* days of history handed to analyzeCostTrends
MaxTrendDays == 9
\* forecastCosts is asked for up to MaxForecastDays days.
MaxForecastDays == 8
\* detectAnomalies is called up to MaxCalls times on one series.
MaxCalls == 2
\* Up to MaxRequests requests are served one after the other.
MaxRequests == 2
\* The timers are followed for MaxWall half hours.
MaxWall == 120

\* Daily totals fed to the anomaly detector.
Totals == {0, 100, 500}

VARIABLES
    \* -- AnomalyDetectionService
    dailyCosts,    \* argument of detectAnomalies: sequence of [day, total]
    period,        \* argument of detectAnomalies
    windowSize,    \* the windowSize argument of calculateMovingAverage
    movingAverages, \* the array calculateMovingAverage returned, or NoResult
    lookbackDays,  \* the lookbackDays argument of detectCostSpikes
    spikeDetection, \* the object detectCostSpikes returned, or NoResult
    optimizationOpportunities, \* the object identifyOptimizationOpportunities
                   \* of AnomalyDetectionService returned, or NoResult
    previousAnalysis, \* what the call of detectAnomalies before the last returned
    calls,         \* number of analytics calls made on dailyCosts
    forecastDays,  \* the days argument of CostAnalyticsService.forecastCosts
    forecast,      \* the object it returned, or NoResult
    analysis,      \* object returned by detectAnomalies, or NoResult
    \* -- recommendation generators
    resourceData,  \* the resource records handed to the generators
    costData,      \* costData.serviceCosts: sequence of [service, data, total]
    costDocs,      \* the Cost documents the POST /generate handler reads
    generated,     \* what a generator returned: [by, list], or NoResult
    \* -- AnalyticsEngine.analyzeCostTrends
    historicalData,  \* its argument: NoData, or Days(a sequence of [date, cost])
    trendAnalysis,   \* the object it returned, or NoResult
    \* -- CostMonitorService and the collections it works on
    \* -- AIInsightsEngine.generateInsights and the data-flow controller
    insights,         \* the insights object generateInsights returned, or NoResult
    summaryText,      \* what generateSummary said about it, or NoResult
    analyticsResults, \* what DataFlowController.runAnalytics returned, or NoResult
    request,          \* the /api/data request being served and where it stands, or NoResult
    result,           \* the result object of its processCloudData, or NoResult
    response,         \* what the last request was answered with, or NoResult
    Recommendation,   \* the recommendations collection: sequence of documents
    served,           \* requests answered so far
    clock,         \* Date.now(), in hours since the server started (at midnight)
    Budget,        \* the budgets collection: sequence of documents, _id = position
    Cost,          \* the costs collection: sequence of documents
    runs,          \* per invocation slot: where that invocation stands
    runCount,      \* invocations started so far; the next one's number
    overlapped,    \* pairs {r1, r2} of invocations that were in flight together
    sent,          \* the alerts handed to AlertService, in order
    \* -- the timers of startMonitoring
    wall,          \* elapsed time, in half hours since the local midnight before the start
    zone,          \* the clock change of the server's time zone, if it has one
    timers,        \* when each timer is due next, or NoResult before startMonitoring
    fired          \* the invocations the timers have made

anomalyVars == <<dailyCosts, period, analysis, windowSize, movingAverages,
                 lookbackDays, spikeDetection, optimizationOpportunities,
                 previousAnalysis, calls,
                   forecastDays, forecast>>
recommendVars == <<resourceData, costData, costDocs, generated>>
trendVars == <<historicalData, trendAnalysis>>
flowVars == <<request, result, response, Recommendation, served>>
insightVars == <<insights, summaryText, analyticsResults,
                 request, result, response, Recommendation, served>>
schedVars == <<wall, zone, timers, fired>>
monitorVars == <<clock, Budget, Cost, runs, runCount, overlapped, sent,
                 wall, zone, timers, fired>>
vars == <<dailyCosts, period, analysis, windowSize, movingAverages,
          lookbackDays, spikeDetection, optimizationOpportunities,
          previousAnalysis, calls, forecastDays, forecast,
          resourceData, costData, costDocs, generated,
          historicalData, trendAnalysis, insights, summaryText, analyticsResults,
          request, result, response, Recommendation, served,
          clock, Budget, Cost, runs, runCount, overlapped, sent,
          wall, zone, timers, fired>>

NoResult == [none |-> TRUE]

\* The parts of the state a specification does not exercise stay as they
\* are after construction.
AnomalyIdle ==
    /\ dailyCosts = <<>> /\ period = 0 /\ analysis = NoResult
    /\ windowSize = 0 /\ movingAverages = NoResult
    /\ lookbackDays = 0 /\ spikeDetection = NoResult
    /\ optimizationOpportunities = NoResult
    /\ previousAnalysis = NoResult /\ calls = 0
    /\ forecastDays = 0 /\ forecast = NoResult
RecommendIdle ==
    resourceData = <<>> /\ costData = <<>> /\ costDocs = <<>> /\ generated = NoResult
TrendIdle == historicalData = [missing |-> TRUE] /\ trendAnalysis = NoResult
FlowIdle ==
    /\ request = NoResult /\ result = NoResult /\ response = NoResult
    /\ Recommendation = <<>> /\ served = 0
InsightsIdle ==
    /\ insights = NoResult /\ summaryText = NoResult /\ analyticsResults = NoResult
    /\ FlowIdle
Slots == {"timer", "request"}
SchedIdle ==
    wall = 0 /\ zone = [none |-> TRUE] /\ timers = NoResult /\ fired = {}
MonitorIdle ==
    /\ clock = 0 /\ Budget = <<>> /\ Cost = <<>>
    /\ runs = [s \in Slots |-> [pc |-> "idle"]]
    /\ runCount = 0 /\ overlapped = {} /\ sent = <<>>
    /\ SchedIdle

\* ------------------------------------------------------------------------
\* Generic helpers
\* ------------------------------------------------------------------------
Max(a, b) == IF a >= b THEN a ELSE b
Min(a, b) == IF a <= b THEN a ELSE b

RECURSIVE SumSeq(_)
SumSeq(s) == IF s = <<>> THEN 0 ELSE Head(s) + SumSeq(Tail(s))

RECURSIVE SetSum(_, _)
SetSum(f, S) ==
    IF S = {} THEN 0
    ELSE LET x == CHOOSE y \in S : TRUE IN f[x] + SetSum(f, S \ {x})

SeqsUpTo(S, n) == UNION { [1..k -> S] : k \in 0..n }

\* Array.prototype.slice(start) with a single argument.
Slice(s, start) ==
    LET len == Len(s)
        from == IF start < 0 THEN Max(len + start, 0) ELSE Min(start, len)
    IN  SubSeq(s, from + 1, len)

\* ------------------------------------------------------------------------
\* AnomalyDetectionService
\* ------------------------------------------------------------------------

\* A JavaScript number that a division can make non-finite is a record:
\* [kind |-> "finite", value |-> v], or a record whose kind is "NaN",
\* "Infinity" or "-Infinity".

\* parseFloat((num / den).toFixed(2)) for den > 0, in hundredths (of the
\* unit of num / den): the nearest hundredth, halves away from zero.
\* (roundToUnits rounds to whole units instead.)
roundToUnits(num, den) ==
    100 * (IF num >= 0 THEN (2 * num + 100 * den) \div (200 * den)
           ELSE -((2 * (-num) + 100 * den) \div (200 * den)))

roundHalfAway(num, den) ==
    IF num >= 0 THEN (2 * num + den) \div (2 * den)
    ELSE -((2 * (-num) + den) \div (2 * den))

Finite(v) == [kind |-> "finite", value |-> v]

\* parseFloat((num / den).toFixed(2)) where den may be 0, for den >= 0.
ratioToFixed2(num, den) ==
    IF den > 0 THEN Finite(roundHalfAway(num, den))
    ELSE IF num = 0 THEN [kind |-> "NaN"]
    ELSE IF num > 0 THEN [kind |-> "Infinity"]
    ELSE [kind |-> "-Infinity"]

\* calculateStatistics(values).  The returned record stands for
\*   mean   = sum / n
\*   stdDev = sqrt(devSq / n^3)      (devSq = sum over v of (n*v - sum)^2,
\*                                    i.e. n^2 * sum of (v - mean)^2)
\* and for the zeroed result when n = 0.
calculateStatisticsNoDivide(values) ==
    LET n == Len(values)
        sum == SumSeq(values)
    IN  [n |-> n,
         sum |-> sum,
         devSq |-> n * SumSeq([i \in 1..n |-> (n * values[i] - sum) * (n * values[i] - sum)])]

calculateStatistics(values) ==
    LET n == Len(values)
        sum == SumSeq(values)
    IN  [n |-> n,
         sum |-> sum,
         devSq |-> SumSeq([i \in 1..n |-> (n * values[i] - sum) * (n * values[i] - sum)])]

\* total > stats.mean + (k2/2) * stats.stdDev, for n > 0:
\*   (n*total - sum)/n > (k2/2) * sqrt(devSq/n^3)
\*   <=>  n*total - sum > 0  /\  4 * n * (n*total - sum)^2 > k2^2 * devSq
\* (ExceedsGe is the comparison written with >= instead of >.)
ExceedsGe(total, stats, k2) ==
    LET L == stats.n * total - stats.sum
    IN  L >= 0 /\ 4 * stats.n * L * L >= k2 * k2 * stats.devSq

Exceeds(total, stats, k2) ==
    LET L == stats.n * total - stats.sum
    IN  L > 0 /\ 4 * stats.n * L * L > k2 * k2 * stats.devSq

\* threshold = mean + 2 * stdDev: twice the multiplier 2
ErrorK2 == 4
\* warningThreshold = mean + 1.5 * stdDev: twice the multiplier 1.5
WarningK2 == 3

calculateHealthScore(anomalyCount, warningCount) ==
    Max(0, 100 - anomalyCount * 15 - warningCount * 5)

detectAnomalies(costs, per) ==
    LET recentCosts == Slice(costs, -per)
        values == [i \in 1..Len(recentCosts) |-> recentCosts[i].total]
        stats == calculateStatistics(values)
        isAnomaly(d) == Exceeds(d.total, stats, ErrorK2)
        isWarning(d) == ~isAnomaly(d) /\ Exceeds(d.total, stats, WarningK2)
        anoSeq == SelectSeq(recentCosts, isAnomaly)
        warnSeq == SelectSeq(recentCosts, isWarning)
        \* zScore = (total - mean) / stdDev: whether it is finite
        zScore(d) ==
            [kind |-> ratioToFixed2(stats.n * d.total - stats.sum, stats.devSq).kind]
        \* (total - mean) / mean * 100, in hundredths of a percent
        deviationPercent(d) ==
            ratioToFixed2(100 * 100 * (stats.n * d.total - stats.sum), stats.sum)
    IN  [period |-> per,
         anomalies |-> [i \in 1..Len(anoSeq) |->
                           [day |-> anoSeq[i].day, actualCost |-> anoSeq[i].total,
                            zScore |-> zScore(anoSeq[i]),
                            deviationPercent |-> deviationPercent(anoSeq[i]),
                            severity |-> "error"]],
         warnings |-> [i \in 1..Len(warnSeq) |->
                           [day |-> warnSeq[i].day, actualCost |-> warnSeq[i].total,
                            zScore |-> zScore(warnSeq[i]),
                            deviationPercent |-> deviationPercent(warnSeq[i]),
                            severity |-> "warning"]],
         totalAnomalies |-> Len(anoSeq),
         totalWarnings |-> Len(warnSeq),
         healthScore |-> calculateHealthScore(Len(anoSeq), Len(warnSeq))]

\* ------------------------------------------------------------------------
\* Specification of the anomaly detector: any series, any period, one call
\* ------------------------------------------------------------------------
DailyCostSeries ==
    { [i \in 1..Len(t) |-> [day |-> i, total |-> t[i]]] : t \in SeqsUpTo(Totals, MaxDays) }

InitAnomaly ==
    /\ dailyCosts \in DailyCostSeries
    /\ period \in 0..MaxPeriod
    /\ analysis = NoResult
    /\ windowSize = 0 /\ movingAverages = NoResult
    /\ lookbackDays = 0 /\ spikeDetection = NoResult
    /\ optimizationOpportunities = NoResult
    /\ previousAnalysis = NoResult /\ calls = 0
    /\ forecastDays = 0 /\ forecast = NoResult
    /\ RecommendIdle
    /\ TrendIdle
    /\ InsightsIdle
    /\ MonitorIdle

DetectAnomalies ==
    /\ analysis = NoResult
    /\ analysis' = detectAnomalies(dailyCosts, period)
    /\ UNCHANGED <<dailyCosts, period, windowSize, movingAverages, lookbackDays,
                   spikeDetection, optimizationOpportunities, previousAnalysis, calls,
                   forecastDays, forecast>>
    /\ UNCHANGED <<recommendVars, trendVars, insightVars, monitorVars>>

NextAnomaly == DetectAnomalies

SpecAnomaly == InitAnomaly /\ [][NextAnomaly]_vars

\* ------------------------------------------------------------------------
\* Claims about detectAnomalies
\* ------------------------------------------------------------------------

\* The trailing window of the claims: the positions of the last `period`
\* entries of the series, with the sums over it.
WindowDays == {i \in 1..Len(dailyCosts) : i > Len(dailyCosts) - period}
WindowN == Cardinality(WindowDays)
WindowSum == SetSum([i \in 1..Len(dailyCosts) |-> dailyCosts[i].total], WindowDays)
WindowSumSq ==
    SetSum([i \in 1..Len(dailyCosts) |-> dailyCosts[i].total * dailyCosts[i].total],
           WindowDays)
\* n^2 * variance = n * (sum of squares) - (sum)^2
WindowSpread == WindowN * WindowSumSq - WindowSum * WindowSum

\* total of day i > mu + 2 sigma, resp. > mu + 1.5 sigma, over the window
AboveTwoSigma(i) ==
    LET L == WindowN * dailyCosts[i].total - WindowSum
    IN  L > 0 /\ L * L > 4 * WindowSpread
AboveOneAndHalfSigma(i) ==
    LET L == WindowN * dailyCosts[i].total - WindowSum
    IN  L > 0 /\ 4 * L * L > 9 * WindowSpread

ReportedIn(list, i) == \E k \in 1..Len(list) : list[k].day = i
TimesReportedIn(list, i) == Cardinality({k \in 1..Len(list) : list[k].day = i})

ExampleSeries == <<100, 100, 100, 100, 100, 100, 100, 500>>

\* C1: detectAnomalies classifies each of the last `period` entries against
\* the population mean and standard deviation of those entries: an entry is in
\* `anomalies` (severity 'error') iff total > mu + 2 sigma, in `warnings`
\* (severity 'warning') iff mu + 1.5 sigma < total <= mu + 2 sigma, in neither
\* otherwise; no entry is in both lists and no entry outside the trailing
\* window is reported.  For [100 x 7, 500] with period 8 exactly day 8 is
\* reported, as an 'error' anomaly.
C1_ClassifiesTrailingWindow ==
    analysis # NoResult =>
        /\ \A i \in 1..Len(dailyCosts) :
              /\ ReportedIn(analysis.anomalies, i)
                    <=> (i \in WindowDays /\ AboveTwoSigma(i))
              /\ ReportedIn(analysis.warnings, i)
                    <=> (i \in WindowDays /\ AboveOneAndHalfSigma(i) /\ ~AboveTwoSigma(i))
              /\ ~(ReportedIn(analysis.anomalies, i) /\ ReportedIn(analysis.warnings, i))
              /\ TimesReportedIn(analysis.anomalies, i) <= 1
              /\ TimesReportedIn(analysis.warnings, i) <= 1
        /\ \A k \in 1..Len(analysis.anomalies) : analysis.anomalies[k].severity = "error"
        /\ \A k \in 1..Len(analysis.warnings) : analysis.warnings[k].severity = "warning"
        /\ ([i \in 1..Len(dailyCosts) |-> dailyCosts[i].total] = ExampleSeries /\ period = 8
              => /\ analysis.warnings = <<>>
                 /\ Len(analysis.anomalies) = 1
                 /\ analysis.anomalies[1].day = 8
                 /\ analysis.anomalies[1].severity = "error")

\* The same classification, for calls with period >= 1.
ClassifiesTrailingWindowPositivePeriod ==
    period >= 1 => C1_ClassifiesTrailingWindow

\* A window that is constant except for one higher entry: day `hi` is in the
\* window, every other entry of the window has the same total, lower than
\* the total of day `hi`.
SingleHighPoint(hi) ==
    /\ hi \in WindowDays
    /\ \A i, j \in WindowDays \ {hi} : dailyCosts[i].total = dailyCosts[j].total
    /\ \A i \in WindowDays \ {hi} : dailyCosts[i].total < dailyCosts[hi].total

FlaggedError(i) ==
    \E k \in 1..Len(analysis.anomalies) :
        analysis.anomalies[k].day = i /\ analysis.anomalies[k].severity = "error"

\* C2 (as stated): a single high point in an otherwise-constant window of
\* two or more entries is flagged as an 'error' anomaly, whatever the number
\* of points and the size of the jump.
C2_SingleHighPointAnyWindow ==
    (analysis # NoResult /\ period >= 1) =>
        \A hi \in 1..Len(dailyCosts) :
            (SingleHighPoint(hi) /\ WindowN >= 2) => FlaggedError(hi)

\* C2 (amended): the single high point is flagged as an 'error' anomaly when
\* the window holds at least 6 entries (its z-score is sqrt(n-1), which
\* exceeds 2 only from n = 6 on), whatever the size of the jump.
C2_SingleHighPointSixOrMore ==
    (analysis # NoResult /\ period >= 1) =>
        \A hi \in 1..Len(dailyCosts) :
            (SingleHighPoint(hi) /\ WindowN >= 6) => FlaggedError(hi)

C2_Witness ==
    /\ analysis # NoResult
    /\ period >= 1
    /\ \E hi \in 1..Len(dailyCosts) :
          /\ SingleHighPoint(hi)
          /\ WindowN >= 6
          /\ Len(dailyCosts) > WindowN
          /\ FlaggedError(hi)

\* C3: a non-empty series whose totals are all equal, analysed with any
\* period >= 1, yields no anomaly, no warning and healthScore 100.
C3_ConstantSeriesHealthy ==
    (/\ analysis # NoResult
     /\ Len(dailyCosts) >= 1
     /\ period >= 1
     /\ \A i, j \in 1..Len(dailyCosts) : dailyCosts[i].total = dailyCosts[j].total)
    => (/\ analysis.anomalies = <<>>
        /\ analysis.warnings = <<>>
        /\ analysis.totalAnomalies = 0
        /\ analysis.totalWarnings = 0
        /\ analysis.healthScore = 100)

C3_Witness ==
    /\ analysis # NoResult
    /\ Len(dailyCosts) >= 3
    /\ period \in 1..(Len(dailyCosts) - 1)
    /\ \A i \in 1..Len(dailyCosts) : dailyCosts[i].total = 100
    /\ analysis.healthScore = 100

\* ------------------------------------------------------------------------
\* Money and the recommendation generators
\* ------------------------------------------------------------------------

\* Money is counted in units of 1/100 cent.  The costs the model feeds in are
\* multiples of 20 units, so that every percentage the code takes of a cost
\* (40, 30, 15, 10, 60 %) is a whole number of units.
Cent == 10 * 10
Dollar == 100 * Cent

\* x * 0.p
Pct(x, p) == (x * p) \div 100

\* x.toFixed(): the nearest whole dollar
toFixed0(x) == ((x + (Dollar \div 2)) \div Dollar) * Dollar

\* parseFloat(x.toFixed(2)) for x >= 0: the nearest whole cent, ties upwards
toFixed2(x) == ((x + (Cent \div 2)) \div Cent) * Cent

RECURSIVE Flatten(_)
Flatten(ss) == IF ss = <<>> THEN <<>> ELSE Head(ss) \o Flatten(Tail(ss))

\* resource.utilization is missing
NoUtilization == [absent |-> TRUE]

\* Array.prototype.sort((a, b) => b.key - a.key): a stable sort, descending.
\* keys[i] is the key of list[i]; the result of OrderDesc is the order in
\* which the positions of the list come out.
RECURSIVE InsertDesc(_, _, _)
InsertDesc(sorted, i, keys) ==
    IF sorted = <<>> THEN <<i>>
    ELSE IF keys[Head(sorted)] >= keys[i]
         THEN <<Head(sorted)>> \o InsertDesc(Tail(sorted), i, keys)
         ELSE <<i>> \o sorted

RECURSIVE OrderDesc(_, _)
OrderDesc(keys, n) ==
    IF n = 0 THEN <<>> ELSE InsertDesc(OrderDesc(keys, n - 1), n, keys)

sortDesc(list, keys) ==
    LET order == OrderDesc(keys, Len(list))
    IN  [k \in 1..Len(list) |-> list[order[k]]]

\* -- AIInsightsEngine ------------------------------------------------------

\* aiConfidence is counted in hundredths of a point.
\* Math.min(95, 70 + (40 - avgUtilization)), avgUtilization = (cpu + memory) / 2
\* (rightsizingConfidenceNoCap leaves Math.min(95, ...) out.)
rightsizingConfidenceNoCap(cpu, memory) == 7000 + (4000 - 50 * (cpu + memory))

rightsizingConfidence(cpu, memory) == Min(9500, 7000 + (4000 - 50 * (cpu + memory)))

generateRightsizingRecommendations(resources) ==
    Flatten([i \in 1..Len(resources) |->
        LET resource == resources[i] IN
        IF resource.utilization = NoUtilization THEN <<>>
        ELSE LET cpu == resource.utilization.cpu
                 memory == resource.utilization.memory
             IN  \* avgUtilization = (cpu + memory) / 2
                 IF cpu + memory < 2 * 40 /\ cpu < 50 /\ memory < 50
                 THEN << [category |-> "rightsizing",
                          priority |-> IF cpu + memory < 2 * 20 THEN "high" ELSE "medium",
                          estimatedSavings |-> toFixed2(Pct(resource.cost, 40)),
                          savingsPercentage |-> 40,
                          aiConfidence |-> rightsizingConfidence(cpu, memory),
                          resourceId |-> resource.resourceId] >>
                 ELSE <<>>])

\* stdDev / avgCost < 0.3 for the costs of a service's data points (n > 0):
\*   sqrt(devSq / n^3) < 0.3 * sum / n  <=>  sum > 0 /\ 100 * devSq < 9 * n * sum^2
\* The ratio does not change when every cost is divided by the same number;
\* the data points of the model are whole dollars and are counted in dollars
\* here to keep the squares small.
lowVariation(costs) ==
    LET n == Len(costs)
        inDollars == [i \in 1..n |-> costs[i] \div Dollar]
        stats == calculateStatistics(inDollars)
    IN  stats.sum > 0 /\ 100 * stats.devSq < 9 * n * stats.sum * stats.sum

\* Math.min(90, 75 + (0.3 - coefficientOfVariation) * 50), rounded down to a
\* whole point.  With cv = sqrt(devSq / n) / sum the value is 90 - 50 * cv,
\* and 50 * cv <= k  <=>  2500 * devSq <= k^2 * n * sum^2.  It is computed
\* only where lowVariation holds, so that 50 * cv < 15.
riConfidence(costs) ==
    LET n == Len(costs)
        inDollars == [i \in 1..n |-> costs[i] \div Dollar]
        stats == calculateStatistics(inDollars)
        k == CHOOSE k \in 0..15 :
                /\ 2500 * stats.devSq <= k * k * n * stats.sum * stats.sum
                /\ \A j \in 0..(k - 1) :
                      2500 * stats.devSq > j * j * n * stats.sum * stats.sum
    IN  Min(9000, 100 * (90 - k))

generateRIRecommendations(serviceCosts) ==
    Flatten([i \in 1..Len(serviceCosts) |->
        LET service == serviceCosts[i] IN
        IF service.total < 100 * Dollar THEN <<>>
        ELSE IF Len(service.data) >= 30 /\ lowVariation(service.data)
             THEN << [category |-> "reserved_instances",
                      priority |-> IF service.total > 500 * Dollar THEN "high" ELSE "medium",
                      estimatedSavings |-> toFixed2(Pct(service.total, 30)),
                      savingsPercentage |-> 30,
                      aiConfidence |-> riConfidence(service.data),
                      service |-> service.service] >>
             ELSE <<>>])

generateIdleResourceRecommendations(resources) ==
    Flatten([i \in 1..Len(resources) |->
        LET resource == resources[i] IN
        IF resource.utilization = NoUtilization THEN <<>>
        ELSE LET cpu == resource.utilization.cpu
                 memory == resource.utilization.memory
             IN  IF cpu < 5 /\ memory < 5
                 THEN << [category |-> "idle_resources",
                          priority |-> "high",
                          estimatedSavings |-> toFixed2(resource.cost),
                          savingsPercentage |-> 100,
                          aiConfidence |-> 8500,
                          resourceId |-> resource.resourceId] >>
                 ELSE <<>>])

\* s.service?.includes('S3') || s.service?.includes('Storage')
StorageNamed(name) == name \in {"Amazon S3", "Azure Storage"}

generateStorageRecommendations(serviceCosts) ==
    LET storage == SelectSeq(serviceCosts, LAMBDA s : StorageNamed(s.service))
    IN  \* find() returns the first storage-named service
        IF storage # <<>> /\ storage[1].total > 100 * Dollar
        THEN << [category |-> "storage_optimization",
                 priority |-> "medium",
                 estimatedSavings |-> toFixed2(Pct(storage[1].total, 40)),
                 savingsPercentage |-> 40,
                 aiConfidence |-> 7000,
                 service |-> storage[1].service] >>
        ELSE <<>>

\* r.resourceType?.includes('EC2')
ComputeTyped(type) == type = "EC2"

generateArchitectureRecommendations(resources) ==
    LET regions == {resources[i].region : i \in 1..Len(resources)}
        inRegion(az) == Cardinality({i \in 1..Len(resources) : resources[i].region = az})
        totalResources == Len(resources)
        \* maxInOneAZ / totalResources > 0.8
        crowded == \E az \in regions : 10 * inRegion(az) > 8 * totalResources
        stateless == SelectSeq(resources,
                        LAMBDA r : /\ ComputeTyped(r.resourceType)
                                   /\ r.utilization # NoUtilization
                                   /\ r.utilization.cpu < 60)
        potentialSavings == SumSeq([i \in 1..Len(stateless) |-> Pct(stateless[i].cost, 60)])
    IN  \* the high-availability recommendation is pushed without a
        \* savingsPercentage
        (IF totalResources > 5 /\ crowded
         THEN << [category |-> "architecture", priority |-> "medium",
                  estimatedSavings |-> 0,
                  aiConfidence |-> 8000] >>
         ELSE <<>>)
        \o
        (IF Len(stateless) > 3
         THEN << [category |-> "spot_instances", priority |-> "medium",
                  estimatedSavings |-> toFixed2(potentialSavings),
                  savingsPercentage |-> 60,
                  aiConfidence |-> 7500] >>
         ELSE <<>>)

\* The recommendations of the five rules, in the order they are pushed.
engineRules(serviceCosts, resources) ==
    generateRightsizingRecommendations(resources)
    \o generateRIRecommendations(serviceCosts)
    \o generateIdleResourceRecommendations(resources)
    \o generateStorageRecommendations(serviceCosts)
    \o generateArchitectureRecommendations(resources)

generateRecommendations(serviceCosts, resources) ==
    LET recommendations == engineRules(serviceCosts, resources)
    IN  sortDesc(recommendations,
                 [i \in 1..Len(recommendations) |-> recommendations[i].estimatedSavings])

\* -- AnalyticsEngine -------------------------------------------------------

analyticsRules(serviceCosts, resources) ==
    LET allTotals == SumSeq([i \in 1..Len(serviceCosts) |-> serviceCosts[i].total])
    IN
    Flatten([i \in 1..Len(serviceCosts) |->
        LET service == serviceCosts[i]
            n == Len(service.data)
            recentWeek == SumSeq(Slice(service.data, -7))
            \* service.data.slice(0, -7)
            previousWeek == SumSeq(SubSeq(service.data, 1, Max(n - 7, 0)))
        IN  \* percentage = total / sum of totals * 100 > 30
            (IF allTotals > 0 /\ 100 * service.total > 30 * allTotals
             THEN << [type |-> "high_spend_service", priority |-> "high",
                      service |-> service.service,
                      potentialSavings |-> Pct(service.total, 15)] >>
             ELSE <<>>)
            \o
            \* growth = previousWeek > 0 ? (recent - previous) / previous * 100 : 0
            (IF n >= 7 /\ previousWeek > 0
                /\ 100 * (recentWeek - previousWeek) > 20 * previousWeek
             THEN << [type |-> "rapid_growth", priority |-> "medium",
                      service |-> service.service,
                      potentialSavings |-> Pct(service.total, 10)] >>
             ELSE <<>>)])
    \o
    Flatten([i \in 1..Len(resources) |->
        LET resource == resources[i] IN
        IF resource.utilization = NoUtilization THEN <<>>
        ELSE LET cpu == resource.utilization.cpu
                 memory == resource.utilization.memory
             IN  (IF cpu < 20 /\ memory < 20
                  THEN << [type |-> "underutilized_resource",
                           priority |-> IF cpu < 10 THEN "high" ELSE "medium",
                           resourceId |-> resource.resourceId,
                           potentialSavings |-> Pct(resource.cost, 40)] >>
                  ELSE <<>>)
                 \o
                 (IF cpu < 5 /\ memory < 5
                  THEN << [type |-> "idle_resource", priority |-> "high",
                           resourceId |-> resource.resourceId,
                           potentialSavings |-> resource.cost] >>
                  ELSE <<>>)])

identifyOptimizationOpportunities(serviceCosts, resources) ==
    LET opportunities == analyticsRules(serviceCosts, resources)
    IN  sortDesc(opportunities,
                 [i \in 1..Len(opportunities) |-> opportunities[i].potentialSavings])

\* -- POST /api/recommendations/generate -------------------------------------

\* costByService: one entry per cloudProvider-serviceName key, in the order
\* the keys are first met, with the total cost and the number of documents.
RECURSIVE costByService(_, _)
costByService(costs, acc) ==
    IF costs = <<>> THEN acc
    ELSE LET cost == Head(costs)
             same(g) == g.cloudProvider = cost.cloudProvider /\ g.serviceName = cost.serviceName
             known == \E k \in 1..Len(acc) : same(acc[k])
             updated == [k \in 1..Len(acc) |->
                            IF same(acc[k])
                            THEN [acc[k] EXCEPT !.totalCost = @ + cost.cost, !.count = @ + 1]
                            ELSE acc[k]]
         IN  costByService(Tail(costs),
                 IF known THEN updated
                 ELSE Append(acc, [cloudProvider |-> cost.cloudProvider,
                                   serviceName |-> cost.serviceName,
                                   totalCost |-> cost.cost, count |-> 1]))

handlerRules(resources, costs) ==
    Flatten([i \in 1..Len(resources) |->
        LET resource == resources[i] IN
        IF resource.utilization = NoUtilization THEN <<>>
        ELSE LET cpuUtil == resource.utilization.cpu
                 memoryUtil == resource.utilization.memory
             IN  (IF cpuUtil < 30 /\ memoryUtil < 30
                  THEN << [category |-> "rightsizing",
                           priority |-> IF cpuUtil < 10 THEN "high" ELSE "medium",
                           estimatedSavings |-> Pct(resource.cost, 40),
                           savingsPercentage |-> 40,
                           \* Math.min(95, 70 + (30 - Math.max(cpuUtil, memoryUtil)))
                           aiConfidence |->
                               Min(9500, 7000 + 100 * (30 - Max(cpuUtil, memoryUtil))),
                           resourceId |-> resource.resourceId] >>
                  ELSE <<>>)
                 \o
                 (IF cpuUtil < 5 /\ memoryUtil < 5
                  THEN << [category |-> "idle_resources", priority |-> "high",
                           estimatedSavings |-> resource.cost,
                           savingsPercentage |-> 100,
                           aiConfidence |-> 8500,
                           resourceId |-> resource.resourceId] >>
                  ELSE <<>>)])
    \o
    (LET groups == costByService(costs, <<>>) IN
     Flatten([k \in 1..Len(groups) |->
        IF groups[k].totalCost > 100 * Dollar /\ groups[k].count > 30
        THEN << [category |-> "reserved_instances", priority |-> "medium",
                 estimatedSavings |-> Pct(groups[k].totalCost, 30),
                 savingsPercentage |-> 30,
                 aiConfidence |-> 7500,
                 service |-> groups[k].serviceName] >>
        ELSE <<>>]))

\* The handler answers with the documents insertMany returns: the
\* recommendations in the order they were pushed.
generateRecommendationsHandler(resources, costs) == handlerRules(resources, costs)

\* ------------------------------------------------------------------------
\* Specifications of the recommendation generators
\* ------------------------------------------------------------------------

\* Inputs of the per-resource rules: every combination of the utilization
\* levels around the thresholds of the rules (0 also stands for a missing
\* figure, which the code reads as 0), with a sub-cent and a large cost.
CpuLevels == {0, 8, 25, 35, 55}
MemoryLevels == {0, 12, 25, 35, 55}
GridCosts == {20, 348 * Dollar}
GridProfiles ==
    { [utilization |-> u, cost |-> c] :
        u \in {NoUtilization} \cup [cpu : CpuLevels, memory : MemoryLevels],
        c \in GridCosts }

\* Inputs of the whole-list rules: a few kinds of resource, many of them.
FleetProfiles ==
    { [resourceType |-> "EC2", region |-> "us-east-1a",
       utilization |-> [cpu |-> 8, memory |-> 12], cost |-> 348 * Dollar],
      [resourceType |-> "EC2", region |-> "us-east-1a",
       utilization |-> [cpu |-> 0, memory |-> 0], cost |-> 50 * Dollar],
      [resourceType |-> "RDS", region |-> "us-west-2b",
       utilization |-> [cpu |-> 45, memory |-> 55], cost |-> 100 * Dollar] }

\* A resource list: the position in the list is the resourceId.
ResourceLists(profiles, n) ==
    { [i \in 1..Len(ps) |->
          [resourceId |-> i,
           resourceType |-> IF "resourceType" \in DOMAIN ps[i] THEN ps[i].resourceType ELSE "EC2",
           region |-> IF "region" \in DOMAIN ps[i] THEN ps[i].region ELSE "us-east-1a",
           utilization |-> ps[i].utilization,
           cost |-> ps[i].cost]] : ps \in SeqsUpTo(profiles, n) }

\* A service of costData.serviceCosts: total is the sum of its data points
\* (getCostAndUsage builds it so).
Service(name, costs) == [service |-> name, data |-> costs, total |-> SumSeq(costs)]

SteadyCompute == Service("Amazon EC2", [i \in 1..30 |-> 5 * Dollar])
BigStorage == Service("Amazon S3", [i \in 1..10 |-> 20 * Dollar])
GrowingFunctions ==
    Service("AWS Lambda", [i \in 1..14 |-> IF i <= 7 THEN 1 * Dollar ELSE 3 * Dollar])

ServiceCostLists ==
    { ss \in SeqsUpTo({SteadyCompute, BigStorage, GrowingFunctions}, 2) :
        \A i, j \in 1..Len(ss) : i # j => ss[i] # ss[j] }

\* The Cost documents of one service, n of them, 4 dollars each.
CostDocLists ==
    { [i \in 1..n |-> [cloudProvider |-> "aws", serviceName |-> "Amazon EC2",
                       cost |-> 4 * Dollar]] : n \in {0, 30, 31} }

InitRightsizing ==
    /\ resourceData \in ResourceLists(GridProfiles, MaxGridResources)
    /\ costData = <<>>
    /\ costDocs = <<>>
    /\ generated = NoResult
    /\ AnomalyIdle
    /\ TrendIdle
    /\ InsightsIdle
    /\ MonitorIdle

InitRecommend ==
    /\ resourceData \in ResourceLists(FleetProfiles, MaxResources)
    /\ costData \in ServiceCostLists
    /\ costDocs \in CostDocLists
    /\ generated = NoResult
    /\ AnomalyIdle
    /\ TrendIdle
    /\ InsightsIdle
    /\ MonitorIdle

Returns(by, list) ==
    /\ generated = NoResult
    /\ generated' = [by |-> by, list |-> list]
    /\ UNCHANGED <<resourceData, costData, costDocs>>
    /\ UNCHANGED <<anomalyVars, trendVars, insightVars, monitorVars>>

RunRightsizing ==
    Returns("generateRightsizingRecommendations",
            generateRightsizingRecommendations(resourceData))

RunIdle ==
    Returns("generateIdleResourceRecommendations",
            generateIdleResourceRecommendations(resourceData))

RunGenerateRecommendations ==
    Returns("generateRecommendations", generateRecommendations(costData, resourceData))

RunIdentifyOpportunities ==
    Returns("identifyOptimizationOpportunities",
            identifyOptimizationOpportunities(costData, resourceData))

PostGenerate ==
    Returns("POST /api/recommendations/generate",
            generateRecommendationsHandler(resourceData, costDocs))

NextRightsizing == RunRightsizing \/ RunIdle \/ PostGenerate
SpecRightsizing == InitRightsizing /\ [][NextRightsizing]_vars

NextRecommend == RunGenerateRecommendations \/ RunIdentifyOpportunities \/ PostGenerate
SpecRecommend == InitRecommend /\ [][NextRecommend]_vars

\* ------------------------------------------------------------------------
\* Claims about the recommendation generators
\* ------------------------------------------------------------------------
Returned(by) == generated # NoResult /\ generated.by = by
ReturnedByAny(bys) == generated # NoResult /\ generated.by \in bys

\* The recommendations of one category returned for resource i.
RecsFor(i, category) ==
    {k \in 1..Len(generated.list) :
        /\ generated.list[k].category = category
        /\ "resourceId" \in DOMAIN generated.list[k]
        /\ generated.list[k].resourceId = resourceData[i].resourceId}

Below(i, limit) ==
    /\ resourceData[i].utilization # NoUtilization
    /\ resourceData[i].utilization.cpu < limit
    /\ resourceData[i].utilization.memory < limit

\* C7: every generator emits a rightsizing recommendation for a resource
\* exactly when cpu < 30 and memory < 30, with priority 'high' if cpu < 10 and
\* 'medium' otherwise; {cpu:8, memory:12, cost:348} yields one, with priority
\* 'high'.  Both for the POST handler and for
\* AIInsightsEngine.generateRightsizingRecommendations.
C7_RightsizingRule ==
    ReturnedByAny({"generateRightsizingRecommendations",
                   "POST /api/recommendations/generate"}) =>
        \A i \in 1..Len(resourceData) :
            /\ Below(i, 30) => Cardinality(RecsFor(i, "rightsizing")) = 1
            /\ ~Below(i, 30) => RecsFor(i, "rightsizing") = {}
            /\ \A k \in RecsFor(i, "rightsizing") :
                  generated.list[k].priority =
                      IF resourceData[i].utilization.cpu < 10 THEN "high" ELSE "medium"

\* The same rule, for the POST handler alone.
RightsizingRuleOfHandler ==
    Returned("POST /api/recommendations/generate") => C7_RightsizingRule

\* C8 (as stated): each rightsizing recommendation has estimatedSavings
\* exactly 0.4 x the resource's cost, each idle-resource recommendation
\* exactly the resource's cost.
C8_SavingsExact ==
    ReturnedByAny({"generateRightsizingRecommendations",
                   "generateIdleResourceRecommendations",
                   "POST /api/recommendations/generate"}) =>
        \A i \in 1..Len(resourceData) :
            /\ \A k \in RecsFor(i, "rightsizing") :
                  10 * generated.list[k].estimatedSavings = 4 * resourceData[i].cost
            /\ \A k \in RecsFor(i, "idle_resources") :
                  generated.list[k].estimatedSavings = resourceData[i].cost

WholeCents(x) == x % Cent = 0
WithinHalfCent(x10, y10) == x10 - y10 <= 5 * Cent /\ y10 - x10 <= 5 * Cent

\* C8 (amended): the POST handler's rightsizing savings are exactly 0.4 x
\* cost and its idle savings exactly the cost; AIInsightsEngine reports the
\* same amounts rounded to two decimals (whole cents, within half a cent of
\* 0.4 x cost, resp. of the cost).
C8_SavingsExactOrRounded ==
    /\ Returned("POST /api/recommendations/generate") =>
          \A i \in 1..Len(resourceData) :
              /\ \A k \in RecsFor(i, "rightsizing") :
                    10 * generated.list[k].estimatedSavings = 4 * resourceData[i].cost
              /\ \A k \in RecsFor(i, "idle_resources") :
                    generated.list[k].estimatedSavings = resourceData[i].cost
    /\ ReturnedByAny({"generateRightsizingRecommendations",
                      "generateIdleResourceRecommendations"}) =>
          \A i \in 1..Len(resourceData) :
              /\ \A k \in RecsFor(i, "rightsizing") :
                    /\ WholeCents(generated.list[k].estimatedSavings)
                    /\ WithinHalfCent(10 * generated.list[k].estimatedSavings,
                                      4 * resourceData[i].cost)
              /\ \A k \in RecsFor(i, "idle_resources") :
                    /\ WholeCents(generated.list[k].estimatedSavings)
                    /\ WithinHalfCent(10 * generated.list[k].estimatedSavings,
                                      10 * resourceData[i].cost)

\* The engine has rounded a sub-cent amount and reported an exact one, and
\* both kinds of recommendation were produced.
C8_Witness ==
    /\ Returned("generateRightsizingRecommendations")
    /\ Len(resourceData) = 2
    /\ resourceData[1].cost = 20
    /\ resourceData[2].cost = 348 * Dollar
    /\ \E k \in RecsFor(1, "rightsizing") : generated.list[k].estimatedSavings = 0
    /\ \E k \in RecsFor(2, "rightsizing") :
          10 * generated.list[k].estimatedSavings = 1392 * Dollar

Savings(rec) ==
    IF "estimatedSavings" \in DOMAIN rec THEN rec.estimatedSavings ELSE rec.potentialSavings

NonIncreasing(list) ==
    \A i, j \in 1..Len(list) : i < j => Savings(list[i]) >= Savings(list[j])

Occurrences(list, x) == Cardinality({k \in 1..Len(list) : list[k] = x})
SameElements(a, b) ==
    /\ Len(a) = Len(b)
    /\ \A k \in 1..Len(a) : Occurrences(a, a[k]) = Occurrences(b, a[k])

\* C9: every generator (AIInsightsEngine.generateRecommendations,
\* AnalyticsEngine.identifyOptimizationOpportunities, POST
\* /api/recommendations/generate) returns its full set ordered by
\* non-increasing savings, and the list holds exactly the recommendations
\* the individual rules emitted.
C9_SortedBySavings ==
    /\ Returned("generateRecommendations") =>
          /\ NonIncreasing(generated.list)
          /\ SameElements(generated.list, engineRules(costData, resourceData))
    /\ Returned("identifyOptimizationOpportunities") =>
          /\ NonIncreasing(generated.list)
          /\ SameElements(generated.list, analyticsRules(costData, resourceData))
    /\ Returned("POST /api/recommendations/generate") =>
          /\ NonIncreasing(generated.list)
          /\ SameElements(generated.list, handlerRules(resourceData, costDocs))

\* The same, for the two generators that sort.
SortedBySavingsInEngines ==
    ~Returned("POST /api/recommendations/generate") => C9_SortedBySavings

\* ------------------------------------------------------------------------
\* The reserved-instance rules on services around their thresholds
\* ------------------------------------------------------------------------

\* Data points of a service: n points, the first `first` of them at cost a
\* and the others at cost b.
TwoLevel(n, first, a, b) == [i \in 1..n |-> IF i <= first THEN a ELSE b]

\* 29 or 30 data points, steady or with ten points at another level; ten
\* points of 4 dollars and twenty of 3 dollars make a total of exactly 100
\* dollars.
ReservedData ==
    { TwoLevel(n, first, a, b) :
        n \in {29, 30}, first \in {0, 10},
        a \in {4 * Dollar, 20 * Dollar}, b \in {3 * Dollar, 5 * Dollar} }

ReservedServiceLists ==
    { <<>> }
    \cup { << Service("Amazon EC2", d) >> : d \in ReservedData }
    \cup { << Service("Amazon EC2", d), Service("Amazon RDS", e) >> :
             d \in ReservedData, e \in ReservedData }

InitReserved ==
    /\ resourceData = <<>>
    /\ costData \in ReservedServiceLists
    /\ costDocs \in CostDocLists
    /\ generated = NoResult
    /\ AnomalyIdle
    /\ TrendIdle
    /\ InsightsIdle
    /\ MonitorIdle

RunRI ==
    Returns("generateRIRecommendations", generateRIRecommendations(costData))

NextReserved == RunRI \/ PostGenerate
SpecReserved == InitReserved /\ [][NextReserved]_vars

ReservedFor(name) ==
    { k \in 1..Len(generated.list) :
        /\ generated.list[k].category = "reserved_instances"
        /\ generated.list[k].service = name }

\* C24: a reserved-instance recommendation is emitted for a service exactly
\* when its total is above 100 dollars, it has at least 30 data points and
\* the coefficient of variation of their costs is below 0.3, and its
\* estimatedSavings is 0.3 times the total; in generateRIRecommendations and
\* in the handler of POST /api/recommendations/generate.
C24_ReservedInstanceRule ==
    /\ Returned("generateRIRecommendations") =>
          \A i \in 1..Len(costData) :
              LET service == costData[i]
                  due == /\ service.total > 100 * Dollar
                         /\ Len(service.data) >= 30
                         /\ lowVariation(service.data)
              IN  /\ due <=> ReservedFor(service.service) # {}
                  /\ \A k \in ReservedFor(service.service) :
                        10 * generated.list[k].estimatedSavings = 3 * service.total
    /\ Returned("POST /api/recommendations/generate") =>
          LET groups == costByService(costDocs, <<>>) IN
          \A g \in 1..Len(groups) :
              LET group == groups[g]
                  costs == [i \in 1..Len(costDocs) |-> costDocs[i].cost]
                  due == /\ group.totalCost > 100 * Dollar
                         /\ group.count >= 30
                         /\ lowVariation(costs)
              IN  /\ due <=> ReservedFor(group.serviceName) # {}
                  /\ \A k \in ReservedFor(group.serviceName) :
                        10 * generated.list[k].estimatedSavings = 3 * group.totalCost

\* ------------------------------------------------------------------------
\* The rapid-growth rule on services of two and of three weeks
\* ------------------------------------------------------------------------

\* 14 or 21 data points: the last 7 at one level, the days before at another.
GrowthData ==
    { TwoLevel(n, n - 7, a, b) :
        n \in {14, 21},
        a \in {1 * Dollar, 2 * Dollar, 5 * Dollar},
        b \in {1 * Dollar, 2 * Dollar, 3 * Dollar, 6 * Dollar} }

GrowthServiceLists ==
    { <<>> }
    \cup { << Service("Amazon EC2", d) >> : d \in GrowthData }
    \cup { << Service("Amazon EC2", d), Service("Amazon RDS", e) >> :
             d \in GrowthData, e \in GrowthData }

InitGrowth ==
    /\ resourceData = <<>>
    /\ costData \in GrowthServiceLists
    /\ costDocs = <<>>
    /\ generated = NoResult
    /\ AnomalyIdle
    /\ TrendIdle
    /\ InsightsIdle
    /\ MonitorIdle

NextGrowth == RunIdentifyOpportunities
SpecGrowth == InitGrowth /\ [][NextGrowth]_vars

RapidGrowthFor(name) ==
    { k \in 1..Len(generated.list) :
        /\ generated.list[k].type = "rapid_growth"
        /\ generated.list[k].service = name }

\* C25: identifyOptimizationOpportunities flags a service with at least 14
\* data points as rapid_growth exactly when the total of its last 7 data
\* points exceeds the total of the 7 data points before them by more than
\* 20%, with potentialSavings of 0.10 times the service total.
C25_RapidGrowthWeekOverWeek ==
    Returned("identifyOptimizationOpportunities") =>
        \A i \in 1..Len(costData) :
            LET service == costData[i]
                n == Len(service.data)
                lastWeek == SumSeq(SubSeq(service.data, n - 6, n))
                weekBefore == SumSeq(SubSeq(service.data, n - 13, n - 7))
            IN  n >= 14 =>
                  /\ (100 * (lastWeek - weekBefore) > 20 * weekBefore)
                        <=> RapidGrowthFor(service.service) # {}
                  /\ \A k \in RapidGrowthFor(service.service) :
                        10 * generated.list[k].potentialSavings = service.total

\* ------------------------------------------------------------------------
\* The storage rule on lists with several storage services
\* ------------------------------------------------------------------------

StorageServices ==
    { Service(name, <<total>>) :
        name \in {"Amazon S3", "Azure Storage", "Amazon EC2"},
        total \in {50 * Dollar, 100 * Dollar, 200 * Dollar} }

StorageServiceLists == SeqsUpTo(StorageServices, 2)

InitStorage ==
    /\ resourceData = <<>>
    /\ costData \in StorageServiceLists
    /\ costDocs = <<>>
    /\ generated = NoResult
    /\ AnomalyIdle
    /\ TrendIdle
    /\ InsightsIdle
    /\ MonitorIdle

RunStorage ==
    Returns("generateStorageRecommendations", generateStorageRecommendations(costData))

NextStorage == RunStorage
SpecStorage == InitStorage /\ [][NextStorage]_vars

\* The storage-named services of costData.serviceCosts with a total above
\* 100 dollars.
LargeStorage ==
    { i \in 1..Len(costData) :
        StorageNamed(costData[i].service) /\ costData[i].total > 100 * Dollar }

\* C26: generateStorageRecommendations emits a storage-optimization
\* recommendation, with estimatedSavings of 0.4 times that service's total,
\* whenever some storage-named service of the list has a total above 100,
\* wherever it stands in the list, and none when there is no such service.
C26_StorageRuleAnyPosition ==
    Returned("generateStorageRecommendations") =>
        /\ LargeStorage # {} <=> generated.list # <<>>
        /\ \A k \in 1..Len(generated.list) :
              /\ generated.list[k].category = "storage_optimization"
              /\ \E i \in LargeStorage :
                    10 * generated.list[k].estimatedSavings = 4 * costData[i].total

\* The savings of the records generated for resource i, added up.
SavingsOfResource(i) ==
    SumSeq([k \in 1..Len(generated.list) |->
               IF "resourceId" \in DOMAIN generated.list[k]
                  /\ generated.list[k].resourceId = i
               THEN Savings(generated.list[k]) ELSE 0])

\* C30: in every generation run, the estimatedSavings (or potentialSavings)
\* of all the records generated for one resource add up to no more than the
\* cost of that resource.
C30_SavingsWithinResourceCost ==
    generated # NoResult =>
        \A i \in 1..Len(resourceData) : SavingsOfResource(i) <= resourceData[i].cost

\* ------------------------------------------------------------------------
\* AnalyticsEngine.analyzeCostTrends
\* ------------------------------------------------------------------------

\* The argument: missing (undefined / null), or an array of days.
NoData == [missing |-> TRUE]
Days(days) == [missing |-> FALSE, days |-> days]

\* The least-squares slope over x = 1..n is slopeNumerator / slopeDenominator:
\*   (n * sumXY - sumX * sumY) / (n * sumX2 - sumX * sumX)
\* (slopeNumeratorZeroBased weighs the costs by i instead of i + 1.)
slopeNumeratorZeroBased(costs) ==
    LET n == Len(costs)
        sumX == (n * (n + 1)) \div 2
        sumY == SumSeq(costs)
        sumXY == SumSeq([i \in 1..n |-> (i - 1) * costs[i]])
    IN  n * sumXY - sumX * sumY

slopeNumerator(costs) ==
    LET n == Len(costs)
        sumX == (n * (n + 1)) \div 2
        sumY == SumSeq(costs)
        sumXY == SumSeq([i \in 1..n |-> i * costs[i]])
    IN  n * sumXY - sumX * sumY

slopeDenominator(n) ==
    LET sumX == (n * (n + 1)) \div 2
        sumX2 == (n * (n + 1) * (2 * n + 1)) \div 6
    IN  n * sumX2 - sumX * sumX

\* !dailyCosts || dailyCosts.length < 7
\* (tooShortBelowSix asks for 6 points only.)
tooShortBelowSix(data) == data = NoData \/ Len(data.days) < 6

tooShort(data) == data = NoData \/ Len(data.days) < 7

analyzeCostTrends(data) ==
    IF tooShort(data)
    THEN [trend |-> "insufficient_data",
          averageDaily |-> [num |-> 0, den |-> 1],
          projectedMonthly |-> [num |-> 0, den |-> 1],
          anomaly |-> FALSE]
    ELSE
    LET costs == [i \in 1..Len(data.days) |-> data.days[i].cost]
        n == Len(costs)
        sumY == SumSeq(costs)
        num == slopeNumerator(costs)
        den == slopeDenominator(n)
        \* slope > averageDaily * 0.01   <=>  num/den >  sumY / (100 n)
        \* slope < -averageDaily * 0.01  <=>  num/den < -sumY / (100 n)
        \* (den > 0 for n >= 2)
        increasing == 100 * n * num > sumY * den
        decreasing == 100 * n * num < -(sumY * den)
        stats == calculateStatistics(costs)
    IN  [trend |-> IF decreasing THEN "decreasing"
                   ELSE IF increasing THEN "increasing" ELSE "stable",
         averageDaily |-> [num |-> sumY, den |-> n],
         projectedMonthly |-> [num |-> sumY * 30, den |-> n],
         slope |-> [num |-> num, den |-> den],
         anomaly |-> \E i \in 1..n : Exceeds(costs[i], stats, ErrorK2)]

\* Histories: every non-negative arithmetic progression first + (i-1) * step
\* of up to MaxTrendDays days, and the missing argument.
TrendFirsts == {0, 7, 100, 500}
TrendSteps == {-50, -5, -1, 0, 1, 5, 50}
Progression(first, step, n) ==
    Days([i \in 1..n |-> [date |-> i, cost |-> first + (i - 1) * step]])
Histories ==
    {NoData} \cup
    { Progression(first, step, n) :
        first \in TrendFirsts, step \in TrendSteps,
        n \in 0..MaxTrendDays }

NonNegative(data) == \A i \in 1..Len(data.days) : data.days[i].cost >= 0

InitTrend ==
    /\ historicalData \in {h \in Histories : h = NoData \/ NonNegative(h)}
    /\ trendAnalysis = NoResult
    /\ AnomalyIdle
    /\ RecommendIdle
    /\ InsightsIdle
    /\ MonitorIdle

AnalyzeCostTrends ==
    /\ trendAnalysis = NoResult
    /\ trendAnalysis' = analyzeCostTrends(historicalData)
    /\ UNCHANGED historicalData
    /\ UNCHANGED <<anomalyVars, recommendVars, insightVars, monitorVars>>

NextTrend == AnalyzeCostTrends
SpecTrend == InitTrend /\ [][NextTrend]_vars

\* ------------------------------------------------------------------------
\* Claims about analyzeCostTrends
\* ------------------------------------------------------------------------

\* The history is an arithmetic progression of at least 7 non-negative
\* costs; its first cost and its common difference.
IsProgression ==
    /\ historicalData # NoData
    /\ Len(historicalData.days) >= 7
    /\ NonNegative(historicalData)
    /\ \A i \in 2..(Len(historicalData.days) - 1) :
          historicalData.days[i + 1].cost - historicalData.days[i].cost
              = historicalData.days[2].cost - historicalData.days[1].cost
FirstCost == historicalData.days[1].cost
Difference == historicalData.days[2].cost - historicalData.days[1].cost
\* twice the mean of the progression: 2 * first + (n - 1) * difference
TwiceMean == 2 * FirstCost + (Len(historicalData.days) - 1) * Difference

\* C10 (as stated): an arithmetic progression of at least 7 non-negative
\* costs is classified 'increasing' when its common difference is positive,
\* 'decreasing' when it is negative, 'stable' when it is zero.
C10_TrendFollowsSign ==
    (trendAnalysis # NoResult /\ IsProgression) =>
        trendAnalysis.trend =
            IF Difference > 0 THEN "increasing"
            ELSE IF Difference < 0 THEN "decreasing" ELSE "stable"

\* C10 (amended): the progression is classified 'increasing' when its common
\* difference exceeds 1% of its mean daily cost, 'decreasing' when the
\* difference is below -1% of the mean, and 'stable' otherwise, in
\* particular when the difference is zero.
C10_TrendFollowsOnePercent ==
    (trendAnalysis # NoResult /\ IsProgression) =>
        /\ trendAnalysis.trend =
              IF 200 * Difference > TwiceMean THEN "increasing"
              ELSE IF 200 * Difference < -TwiceMean THEN "decreasing" ELSE "stable"
        /\ Difference = 0 => trendAnalysis.trend = "stable"

\* A rising progression whose step is within 1% of its mean was analysed.
C10_Witness ==
    /\ trendAnalysis # NoResult
    /\ IsProgression
    /\ Difference > 0
    /\ 200 * Difference <= TwiceMean
    /\ trendAnalysis.trend = "stable"

\* The sentinel of lines 335-340.
InsufficientData ==
    [trend |-> "insufficient_data",
     averageDaily |-> [num |-> 0, den |-> 1],
     projectedMonthly |-> [num |-> 0, den |-> 1],
     anomaly |-> FALSE]

\* C11: analyzeCostTrends returns the sentinel {trend: 'insufficient_data',
\* averageDaily: 0, projectedMonthly: 0, anomaly: false} for a missing
\* series and for fewer than 7 points, and a trend other than
\* 'insufficient_data' for 7 or more points.
C11_SentinelBelowSevenPoints ==
    trendAnalysis # NoResult =>
        IF historicalData = NoData \/ Len(historicalData.days) < 7
        THEN trendAnalysis = InsufficientData
        ELSE trendAnalysis.trend \in {"stable", "increasing", "decreasing"}

\* A history of exactly 6 points was analysed and gave the sentinel.
C11_Witness ==
    /\ trendAnalysis = InsufficientData
    /\ historicalData # NoData
    /\ Len(historicalData.days) = 6


\* C16: every record detectAnomalies emits in anomalies or warnings has a
\* finite zScore and a finite deviationPercent.
C16_EmittedRecordsFinite ==
    analysis # NoResult =>
        /\ \A k \in 1..Len(analysis.anomalies) :
              /\ analysis.anomalies[k].zScore.kind = "finite"
              /\ analysis.anomalies[k].deviationPercent.kind = "finite"
        /\ \A k \in 1..Len(analysis.warnings) :
              /\ analysis.warnings[k].zScore.kind = "finite"
              /\ analysis.warnings[k].deviationPercent.kind = "finite"

\* An anomaly was emitted for a window that holds days of total 0.
C16_Witness ==
    /\ analysis # NoResult
    /\ Len(analysis.anomalies) >= 1
    /\ \E i \in WindowDays : dailyCosts[i].total = 0

\* ------------------------------------------------------------------------
\* AnomalyDetectionService.calculateMovingAverage
\*
\* Totals are whole cents here.
\* ------------------------------------------------------------------------

\* For windowSize >= 1 (every window then holds at least one day).
calculateMovingAverage(costs, W) ==
    [i \in 1..Len(costs) |->
        LET window == SubSeq(costs, Max(1, i - W + 1), i)
            n == Len(window)
            sum == SumSeq([j \in 1..n |-> window[j].total])
            actual == costs[i].total
        IN  [date |-> costs[i].day,
             actual |-> actual,
             \* avg = sum / n, in cents
             movingAverage |-> roundHalfAway(sum, n),
             deviation |-> roundHalfAway(actual * n - sum, n),
             \* (actual - avg) / avg * 100, in hundredths of a percent
             deviationPercent |-> ratioToFixed2(100 * 100 * (actual * n - sum), sum)]]

WindowSizes == {1, 2, 3, 7}

InitMovingAverage ==
    /\ dailyCosts \in DailyCostSeries
    /\ windowSize \in WindowSizes
    /\ movingAverages = NoResult
    /\ period = 0 /\ analysis = NoResult
    /\ lookbackDays = 0 /\ spikeDetection = NoResult
    /\ optimizationOpportunities = NoResult
    /\ previousAnalysis = NoResult /\ calls = 0
    /\ forecastDays = 0 /\ forecast = NoResult
    /\ RecommendIdle
    /\ TrendIdle
    /\ InsightsIdle
    /\ MonitorIdle

CalculateMovingAverage ==
    /\ movingAverages = NoResult
    /\ movingAverages' = [records |-> calculateMovingAverage(dailyCosts, windowSize)]
    /\ UNCHANGED <<dailyCosts, period, analysis, windowSize, lookbackDays,
                   spikeDetection, optimizationOpportunities, previousAnalysis, calls,
                   forecastDays, forecast>>
    /\ UNCHANGED <<recommendVars, trendVars, insightVars, monitorVars>>

NextMovingAverage == CalculateMovingAverage
SpecMovingAverage == InitMovingAverage /\ [][NextMovingAverage]_vars

\* The trailing window of day i: days max(1, i - W + 1) .. i.
TrailingDays(i) == { j \in 1..Len(dailyCosts) : j <= i /\ j >= i - windowSize + 1 }
TrailingSum(i) ==
    SetSum([j \in 1..Len(dailyCosts) |-> dailyCosts[j].total], TrailingDays(i))
TrailingN(i) == Cardinality(TrailingDays(i))

OneRecordPerDay ==
    /\ Len(movingAverages.records) = Len(dailyCosts)
    /\ \A i \in 1..Len(dailyCosts) :
          /\ movingAverages.records[i].date = dailyCosts[i].day
          /\ movingAverages.records[i].actual = dailyCosts[i].total

ConstantSeries ==
    \A i, j \in 1..Len(dailyCosts) : dailyCosts[i].total = dailyCosts[j].total

ConstantGivesConstant ==
    ConstantSeries =>
        \A i \in 1..Len(dailyCosts) :
            /\ movingAverages.records[i].movingAverage = dailyCosts[i].total
            /\ movingAverages.records[i].deviation = 0

\* C13 (as stated): one record per input record, in input order; the
\* movingAverage of record i is the mean of the totals of its trailing
\* window; for a constant series every movingAverage is the constant and
\* every deviation is 0.
C13_MovingAverageIsWindowMean ==
    movingAverages # NoResult =>
        /\ OneRecordPerDay
        /\ \A i \in 1..Len(dailyCosts) :
              movingAverages.records[i].movingAverage * TrailingN(i) = TrailingSum(i)
        /\ ConstantGivesConstant

\* C13 (amended): one record per input record, in input order; for a window
\* size of at least 1 the movingAverage of record i is the mean of the
\* totals of its trailing window rounded to two decimals (it is a whole
\* number of cents within half a cent of the mean); for a constant series
\* of whole cents every movingAverage is the constant and every deviation
\* is 0.
C13_MovingAverageIsRoundedWindowMean ==
    (movingAverages # NoResult /\ windowSize >= 1) =>
        /\ OneRecordPerDay
        /\ \A i \in 1..Len(dailyCosts) :
              LET off == movingAverages.records[i].movingAverage * TrailingN(i)
                             - TrailingSum(i)
              IN  2 * off <= TrailingN(i) /\ 2 * off >= -TrailingN(i)
        /\ ConstantGivesConstant

\* A moving average over 3 days was computed for a series of at least 4
\* days where the mean of some full window is not a whole number of cents.
C13_Witness ==
    /\ movingAverages # NoResult
    /\ windowSize = 3
    /\ \E i \in 4..Len(dailyCosts) :
          /\ TrailingN(i) = 3
          /\ TrailingSum(i) % 3 # 0

\* C15: no record of calculateMovingAverage carries NaN or Infinity: every
\* movingAverage, deviation and deviationPercent is a finite number, and
\* where the average of the trailing window is 0 the deviationPercent is 0.
C15_MovingAverageNeverNaN ==
    movingAverages # NoResult =>
        \A i \in 1..Len(dailyCosts) :
            /\ movingAverages.records[i].deviationPercent.kind = "finite"
            /\ TrailingSum(i) = 0 =>
                  movingAverages.records[i].deviationPercent = Finite(0)

\* ------------------------------------------------------------------------
\* AnomalyDetectionService.detectCostSpikes
\* ------------------------------------------------------------------------

\* increasePercent > pct, where increasePercent =
\* (currentCost - historicalAvg) / historicalAvg * 100 and historicalAvg =
\* sum / lookback >= 0: for historicalAvg = 0 the quotient is Infinity when
\* currentCost > 0 and NaN, which exceeds nothing, when currentCost = 0.
increaseExceeds(currentCost, sum, lookback, pct) ==
    IF sum > 0 THEN 100 * (currentCost * lookback - sum) > pct * sum
    ELSE currentCost > 0

\* For lookbackDays >= 1 and non-negative totals.
detectCostSpikes(costs, lookback) ==
    LET historicalSum(d) ==
            SumSeq([j \in 1..lookback |-> costs[d - lookback + j - 1].total])
        spike(d) ==
            LET sum == historicalSum(d)
                currentCost == costs[d].total
            IN  [day |-> costs[d].day,
                 currentCost |-> currentCost,
                 increasePercent |->
                     ratioToFixed2(100 * 100 * (currentCost * lookback - sum), sum),
                 severity |->
                     IF increaseExceeds(currentCost, sum, lookback, 100) THEN "critical"
                     ELSE IF increaseExceeds(currentCost, sum, lookback, 75) THEN "high"
                     ELSE "medium"]
        spikes == Flatten([d \in 1..Len(costs) |->
                     IF d > lookback
                        /\ increaseExceeds(costs[d].total, historicalSum(d), lookback, 50)
                     THEN <<spike(d)>> ELSE <<>>])
        count(severity) ==
            Cardinality({k \in 1..Len(spikes) : spikes[k].severity = severity})
    IN  [lookbackDays |-> lookback,
         spikes |-> spikes,
         totalSpikes |-> Len(spikes),
         criticalSpikes |-> count("critical"),
         highSpikes |-> count("high"),
         mediumSpikes |-> count("medium")]

LookbackChoices == {1, 2, 7}

InitCostSpikes ==
    /\ dailyCosts \in DailyCostSeries
    /\ lookbackDays \in LookbackChoices
    /\ spikeDetection = NoResult
    /\ period = 0 /\ analysis = NoResult
    /\ windowSize = 0 /\ movingAverages = NoResult
    /\ optimizationOpportunities = NoResult
    /\ previousAnalysis = NoResult /\ calls = 0
    /\ forecastDays = 0 /\ forecast = NoResult
    /\ RecommendIdle
    /\ TrendIdle
    /\ InsightsIdle
    /\ MonitorIdle

DetectCostSpikes ==
    /\ spikeDetection = NoResult
    /\ spikeDetection' = detectCostSpikes(dailyCosts, lookbackDays)
    /\ UNCHANGED <<dailyCosts, period, analysis, windowSize, movingAverages,
                   lookbackDays, optimizationOpportunities, previousAnalysis, calls,
                   forecastDays, forecast>>
    /\ UNCHANGED <<recommendVars, trendVars, insightVars, monitorVars>>

NextCostSpikes == DetectCostSpikes
SpecCostSpikes == InitCostSpikes /\ [][NextCostSpikes]_vars

\* The sum of the lookbackDays totals before day d.
PrecedingSum(d) ==
    SetSum([j \in 1..Len(dailyCosts) |-> dailyCosts[j].total],
           {j \in 1..Len(dailyCosts) : j < d /\ j >= d - lookbackDays})

SpikeReported(d) ==
    \E k \in 1..Len(spikeDetection.spikes) : spikeDetection.spikes[k].day = d

\* C14: day d is reported as a spike exactly when it has lookbackDays days
\* before it, their average is not 0 and the day's total exceeds that
\* average by more than 50%; no spike record carries an infinite or NaN
\* increasePercent.
C14_SpikesSkipZeroAverage ==
    spikeDetection # NoResult =>
        /\ \A d \in 1..Len(dailyCosts) :
              SpikeReported(d) <=>
                  /\ d > lookbackDays
                  /\ PrecedingSum(d) # 0
                  /\ 100 * (dailyCosts[d].total * lookbackDays - PrecedingSum(d))
                        > 50 * PrecedingSum(d)
        /\ \A k \in 1..Len(spikeDetection.spikes) :
              spikeDetection.spikes[k].increasePercent.kind = "finite"

\* ------------------------------------------------------------------------
\* CostAnalyticsService.forecastCosts
\*
\* dailyCosts stands for overview.dailyTrend, the mock series that
\* generateDailyCosts(period) draws at random: period records, totals in
\* whole cents.
\* ------------------------------------------------------------------------

\* Math.max(0.7, 1 - i * 0.05) in thousandths.
\* (confidenceNoFloor leaves the floor of 0.7 out.)
confidenceNoFloor(i) == 1000 - i * 50

confidenceAt(i) == Max(700, 1000 - i * 50)

forecastCosts(days, per, dailyTrend) ==
    LET n == Len(dailyTrend)
        sumX == (n * (n - 1)) \div 2
        sumY == SumSeq([k \in 1..n |-> dailyTrend[k].total])
        sumXY == SumSeq([k \in 1..n |-> (k - 1) * dailyTrend[k].total])
        sumX2 == (n * (n - 1) * (2 * n - 1)) \div 6
        \* slope = slopeNum / slopeDen
        slopeNum == n * sumXY - sumX * sumY
        slopeDen == n * sumX2 - sumX * sumX
        \* predicted = intercept + slope * (n + i), with
        \* intercept = (sumY - slope * sumX) / n
        predicted(i) ==
            ratioToFixed2(sumY * slopeDen + slopeNum * (n * (n + i) - sumX), n * slopeDen)
    IN  [period |-> days,
         basedOnPeriod |-> per,
         forecast |-> [i \in 1..days |->
                          [horizon |-> i,
                           predicted |-> predicted(i),
                           \* parseFloat(confidence.toFixed(2)), in hundredths
                           confidence |-> roundHalfAway(confidenceAt(i), 10)]],
         trend |-> IF slopeDen > 0 /\ slopeNum > 0 THEN "increasing"
                   ELSE IF slopeDen > 0 /\ slopeNum < 0 THEN "decreasing"
                   ELSE "stable"]

InitForecast ==
    /\ dailyCosts \in {d \in DailyCostSeries : Len(d) <= 5}
    /\ period = Len(dailyCosts)
    /\ forecastDays \in 0..MaxForecastDays
    /\ forecast = NoResult
    /\ analysis = NoResult
    /\ windowSize = 0 /\ movingAverages = NoResult
    /\ lookbackDays = 0 /\ spikeDetection = NoResult
    /\ optimizationOpportunities = NoResult
    /\ previousAnalysis = NoResult /\ calls = 0
    /\ RecommendIdle
    /\ TrendIdle
    /\ InsightsIdle
    /\ MonitorIdle

ForecastCosts ==
    /\ forecast = NoResult
    /\ forecast' = forecastCosts(forecastDays, period, dailyCosts)
    /\ UNCHANGED <<dailyCosts, period, analysis, windowSize, movingAverages,
                   lookbackDays, spikeDetection, optimizationOpportunities,
                   previousAnalysis, calls, forecastDays>>
    /\ UNCHANGED <<recommendVars, trendVars, insightVars, monitorVars>>

NextForecast == ForecastCosts
SpecForecast == InitForecast /\ [][NextForecast]_vars

\* C17: in the forecast of CostAnalyticsService.forecastCosts the confidence
\* does not increase with the horizon, and every confidence lies between
\* 0.7 and 1.
C17_ConfidenceNonIncreasing ==
    forecast # NoResult =>
        /\ Len(forecast.forecast) = forecastDays
        /\ \A i, j \in 1..Len(forecast.forecast) :
              i < j => forecast.forecast[i].confidence >= forecast.forecast[j].confidence
        /\ \A i \in 1..Len(forecast.forecast) :
              /\ forecast.forecast[i].confidence >= 70
              /\ forecast.forecast[i].confidence <= 100

\* A forecast of at least 7 days was made: its confidence falls from 0.95
\* to the floor of 0.7.
C17_Witness ==
    /\ forecast # NoResult
    /\ Len(forecast.forecast) >= 7
    /\ forecast.forecast[1].confidence = 95
    /\ forecast.forecast[7].confidence = 70

\* ------------------------------------------------------------------------
\* AnomalyDetectionService.identifyOptimizationOpportunities
\* ------------------------------------------------------------------------

\* new Date(d.date).getDay(): days are numbered so that day 0 is a Sunday.
getDay(day) == day % 7

\* stats.stdDev / stats.mean > 0.3:
\*   sqrt(devSq / n^3) > 0.3 * sum / n  <=>  sum > 0 /\ 100 * devSq > 9 * n * sum^2
\* (0 / 0 is NaN and compares false).  The ratio does not change when every
\* total is divided by the same number; the totals of the model are whole
\* dollars (100 cents) and are counted in dollars here to keep the squares
\* small.
highVariation(values) ==
    LET n == Len(values)
        inDollars == [i \in 1..n |-> values[i] \div 100]
        stats == calculateStatistics(inDollars)
    IN  stats.sum > 0 /\ 100 * stats.devSq > 9 * n * stats.sum * stats.sum

\* Money is in cents here; confidence is in hundredths of a point.
AnomalyDetectionService_identifyOptimizationOpportunities(costs, per) ==
    LET recentCosts == Slice(costs, -per)
        values == [i \in 1..Len(recentCosts) |-> recentCosts[i].total]
        stats == calculateStatistics(values)
        totalOf(days) == SumSeq([i \in 1..Len(days) |-> days[i].total])
        weekendDays == SelectSeq(recentCosts, LAMBDA d : getDay(d.day) \in {0, 6})
        weekdayDays == SelectSeq(recentCosts, LAMBDA d : getDay(d.day) \in 1..5)
        nWeekend == Len(weekendDays)
        nWeekday == Len(weekdayDays)
        \* avgWeekendCost = sumWeekend / nWeekend, or 0 without weekend days
        sumWeekend == totalOf(weekendDays)
        sumWeekday == totalOf(weekdayDays)
        weekend ==
            IF /\ nWeekend > 0 /\ sumWeekend > 0
               /\ nWeekday > 0 /\ sumWeekday > 0
               \* weekendRatio = avgWeekendCost / avgWeekdayCost > 0.5
               /\ 2 * sumWeekend * nWeekday > sumWeekday * nWeekend
            THEN << [type |-> "weekend_optimization",
                     currentCost |-> roundHalfAway(8 * sumWeekend, nWeekend),
                     \* (avgWeekendCost - avgWeekdayCost * 0.3) * 4
                     potentialSavings |->
                         roundHalfAway(4 * (10 * sumWeekend * nWeekday
                                              - 3 * sumWeekday * nWeekend),
                                       10 * nWeekend * nWeekday),
                     confidence |-> 85] >>
            ELSE <<>>
        variance ==
            IF highVariation(values)
            THEN << [type |-> "cost_stability",
                     currentCost |-> roundHalfAway(30 * stats.sum, stats.n),
                     \* stats.mean * 30 * 0.15
                     potentialSavings |-> roundHalfAway(9 * stats.sum, 2 * stats.n),
                     confidence |-> 75] >>
            ELSE <<>>
        \* d.total > stats.mean + stats.stdDev
        highCostDays == SelectSeq(recentCosts, LAMBDA d : Exceeds(d.total, stats, 2))
        highDays ==
            IF Len(highCostDays) > 3
            THEN << [type |-> "peak_optimization",
                     currentCost |-> totalOf(highCostDays),
                     potentialSavings |-> roundHalfAway(totalOf(highCostDays), 5),
                     confidence |-> 70] >>
            ELSE <<>>
        opportunities == weekend \o variance \o highDays
    IN  [period |-> per,
         opportunities |-> opportunities,
         totalOpportunities |-> Len(opportunities),
         totalPotentialSavings |->
             SumSeq([i \in 1..Len(opportunities) |-> opportunities[i].potentialSavings])]

\* Ten days with four days of peak cost.
PeakDays ==
    [i \in 1..10 |-> [day |-> i, total |-> IF i \in {1, 4, 6, 9} THEN 500 ELSE 100]]

\* Series of MaxDays days that start on a Monday, and the ten days.
OpportunitySeries ==
    {d \in DailyCostSeries : Len(d) = MaxDays} \cup {PeakDays}

InitOpportunities ==
    /\ dailyCosts \in OpportunitySeries
    /\ period \in {3, 30}
    /\ analysis = NoResult
    /\ windowSize = 0 /\ movingAverages = NoResult
    /\ lookbackDays = 0 /\ spikeDetection = NoResult
    /\ optimizationOpportunities = NoResult
    /\ previousAnalysis = NoResult /\ calls = 0
    /\ forecastDays = 0 /\ forecast = NoResult
    /\ RecommendIdle
    /\ TrendIdle
    /\ InsightsIdle
    /\ MonitorIdle

IdentifyOptimizationOpportunities ==
    /\ optimizationOpportunities = NoResult
    /\ optimizationOpportunities' =
           AnomalyDetectionService_identifyOptimizationOpportunities(dailyCosts, period)
    /\ UNCHANGED <<dailyCosts, period, analysis, windowSize, movingAverages,
                   lookbackDays, spikeDetection, previousAnalysis, calls,
                   forecastDays, forecast>>
    /\ UNCHANGED <<recommendVars, trendVars, insightVars, monitorVars>>

\* Every generator of recommendations and opportunities, each on its inputs.
InitGenerators == InitRecommend \/ InitOpportunities

NextGenerators ==
    \/ RunGenerateRecommendations
    \/ RunIdentifyOpportunities
    \/ PostGenerate
    \/ IdentifyOptimizationOpportunities

SpecGenerators == InitGenerators /\ [][NextGenerators]_vars

\* The records the generators have produced.
Produced ==
    (IF generated = NoResult THEN {}
     ELSE {generated.list[k] : k \in 1..Len(generated.list)})
    \cup
    (IF optimizationOpportunities = NoResult THEN {}
     ELSE {optimizationOpportunities.opportunities[k] :
              k \in 1..Len(optimizationOpportunities.opportunities)})

Has(rec, field) == field \in DOMAIN rec

\* C18 (as stated): every recommendation or opportunity produced has a
\* savingsPercentage between 0 and 100, a confidence (aiConfidence) between
\* 0 and 100 and estimatedSavings that are not negative.
C18_RangesOfEveryRecord ==
    \A rec \in Produced :
        /\ Has(rec, "savingsPercentage")
        /\ rec.savingsPercentage >= 0 /\ rec.savingsPercentage <= 100
        /\ Has(rec, "aiConfidence") \/ Has(rec, "confidence")
        /\ Has(rec, "aiConfidence") =>
              rec.aiConfidence >= 0 /\ rec.aiConfidence <= 100 * 100
        /\ Has(rec, "confidence") =>
              rec.confidence >= 0 /\ rec.confidence <= 100 * 100
        /\ Has(rec, "estimatedSavings")
        /\ rec.estimatedSavings >= 0

\* C18 (amended): every record produced carries savings that are not
\* negative, as estimatedSavings (recommendations) or as potentialSavings
\* (opportunities); a savingsPercentage or confidence that a record carries
\* lies between 0 and 100.  Every recommendation carries an aiConfidence, and
\* every recommendation but the high-availability one of category
\* "architecture" carries a savingsPercentage; only the opportunities of
\* AnomalyDetectionService carry a confidence, a fraction of at most 1.
C18_RangesWherePresent ==
    \A rec \in Produced :
        /\ Has(rec, "estimatedSavings") \/ Has(rec, "potentialSavings")
        /\ Has(rec, "estimatedSavings") => rec.estimatedSavings >= 0
        /\ Has(rec, "potentialSavings") => rec.potentialSavings >= 0
        /\ Has(rec, "savingsPercentage") =>
              rec.savingsPercentage >= 0 /\ rec.savingsPercentage <= 100
        /\ Has(rec, "aiConfidence") =>
              rec.aiConfidence >= 0 /\ rec.aiConfidence <= 100 * 100
        /\ Has(rec, "confidence") =>
              rec.confidence >= 0 /\ rec.confidence <= 100
        /\ Has(rec, "category") =>
              /\ Has(rec, "estimatedSavings") /\ Has(rec, "aiConfidence")
              /\ Has(rec, "savingsPercentage") <=> rec.category # "architecture"

\* generateRecommendations returned the high-availability recommendation,
\* which has no savingsPercentage, next to a rightsizing recommendation whose
\* confidence Math.min holds at 95.
C18_Witness ==
    /\ Returned("generateRecommendations")
    /\ \E rec \in Produced :
          rec.category = "architecture" /\ ~Has(rec, "savingsPercentage")
    /\ \E rec \in Produced :
          rec.category = "rightsizing" /\ rec.aiConfidence = 9500

\* ------------------------------------------------------------------------
\* Repeated calls of detectAnomalies on one array, with the other analytics
\* calls of AnomalyDetectionService between them
\* ------------------------------------------------------------------------

\* The array after dailyCosts.slice(start): slice copies, the array is as it
\* was.  AnomalyDetectionService has no fields; the array is the only thing
\* that one call could hand on to the next.
\* (arrayAfterSplice is the array after dailyCosts.splice(start), which
\* removes what it returns.)
arrayAfterSplice(costs, start) == SubSeq(costs, 1, Len(costs) - Len(Slice(costs, start)))

arrayAfterSlice(costs, start) == costs

InitRepeated ==
    /\ dailyCosts \in {d \in DailyCostSeries : Len(d) \in {0, 6}}
    /\ period \in 0..MaxPeriod
    /\ analysis = NoResult
    \* windowSize and lookbackDays at their defaults
    /\ windowSize = 7 /\ movingAverages = NoResult
    /\ lookbackDays = 7 /\ spikeDetection = NoResult
    /\ optimizationOpportunities = NoResult
    /\ previousAnalysis = NoResult /\ calls = 0
    /\ forecastDays = 0 /\ forecast = NoResult
    /\ RecommendIdle
    /\ TrendIdle
    /\ InsightsIdle
    /\ MonitorIdle

DetectAnomaliesAgain ==
    /\ calls < MaxCalls
    /\ calls' = calls + 1
    /\ previousAnalysis' = analysis
    /\ analysis' = detectAnomalies(dailyCosts, period)
    /\ dailyCosts' = arrayAfterSlice(dailyCosts, -period)
    /\ UNCHANGED <<period, windowSize, movingAverages, lookbackDays, spikeDetection,
                   optimizationOpportunities, forecastDays, forecast>>
    /\ UNCHANGED <<recommendVars, trendVars, insightVars, monitorVars>>

NextRepeated ==
    \/ DetectAnomaliesAgain
    \/ CalculateMovingAverage
    \/ DetectCostSpikes
    \/ IdentifyOptimizationOpportunities

SpecRepeated == InitRepeated /\ [][NextRepeated]_vars

\* C19: two calls of detectAnomalies with the same dailyCosts and period
\* return identical results, whatever other analytics calls are made between
\* them.
C19_SameResultEveryCall ==
    calls >= 2 => analysis = previousAnalysis

\* detectAnomalies ran twice on a series in which it reports a day, and the
\* moving average, the spikes and the opportunities were computed as well.
C19_Witness ==
    /\ calls >= 2
    /\ analysis.totalAnomalies + analysis.totalWarnings > 0
    /\ movingAverages # NoResult
    /\ spikeDetection # NoResult
    /\ optimizationOpportunities # NoResult

\* ------------------------------------------------------------------------
\* AIInsightsEngine.generateInsights, generateSummary and
\* DataFlowController.runAnalytics
\*
\* costData stands for costData.serviceCosts, the only part of the cost
\* object these functions read besides totalCost, which is the sum of the
\* service totals.  A function that can change an array it was handed
\* returns, next to its result, the array as it leaves it.
\* ------------------------------------------------------------------------

totalCost(serviceCosts) ==
    SumSeq([i \in 1..Len(serviceCosts) |-> serviceCosts[i].total])

\* costData.serviceCosts.sort((a, b) => b.total - a.total): sorts the array
\* itself.
sortInPlace(serviceCosts) ==
    sortDesc(serviceCosts, [i \in 1..Len(serviceCosts) |-> serviceCosts[i].total])

generateCostSummary(serviceCosts, history) ==
    LET trend == analyzeCostTrends(history)
        sorted == sortInPlace(serviceCosts)
    IN  [returned |->
            [totalCost |-> totalCost(serviceCosts),
             averageDaily |-> trend.averageDaily,
             projectedMonthly |-> trend.projectedMonthly,
             trend |-> trend.trend,
             hasAnomaly |-> trend.anomaly,
             topServices |-> [i \in 1..Min(5, Len(sorted)) |-> sorted[i].service]],
         serviceCosts |-> sorted]

\* AIInsightsEngine.detectAnomalies: the dates of the days above the
\* anomaly threshold of the trend analysis.
AIInsightsEngine_detectAnomalies(history) ==
    LET trend == analyzeCostTrends(history) IN
    IF ~trend.anomaly THEN <<>>
    ELSE LET costs == [i \in 1..Len(history.days) |-> history.days[i].cost]
             stats == calculateStatistics(costs)
         IN  Flatten([i \in 1..Len(costs) |->
                 IF Exceeds(costs[i], stats, ErrorK2)
                 THEN << [type |-> "cost_spike", date |-> history.days[i].date,
                          actualCost |-> costs[i]] >>
                 ELSE <<>>])

\* AnalyticsEngine.forecastCosts: the number of forecast points and the
\* confidence label.
AnalyticsEngine_forecastCosts(history, days) ==
    IF history = NoData \/ Len(history.days) < 14
    THEN [forecast |-> 0, confidence |-> "low"]
    ELSE [forecast |-> days,
          confidence |-> IF Len(history.days) >= 30 THEN "high" ELSE "medium"]

calculateSavingsPotential(opportunities) ==
    [total |-> SumSeq([i \in 1..Len(opportunities) |-> opportunities[i].potentialSavings]),
     count |-> Len(opportunities)]

generateInsights(serviceCosts, resources, history) ==
    LET summary == generateCostSummary(serviceCosts, history)
        after == summary.serviceCosts
        optimizations == identifyOptimizationOpportunities(after, resources)
    IN  [returned |->
            [summary |-> summary.returned,
             anomalies |-> AIInsightsEngine_detectAnomalies(history),
             recommendations |-> generateRecommendations(after, resources),
             forecasts |-> AnalyticsEngine_forecastCosts(history, 30),
             optimizations |-> optimizations,
             savingsPotential |-> calculateSavingsPotential(optimizations)],
         serviceCosts |-> after]

\* generateSummary: which of the three trend sentences the text contains,
\* and whether it mentions anomalies and savings.
generateSummary(ins) ==
    [sentence |-> IF ins.summary.trend = "increasing" THEN "showing an increasing trend"
                  ELSE IF ins.summary.trend = "decreasing" THEN "showing a decreasing trend"
                  ELSE "remaining relatively stable",
     anomalies |-> Len(ins.anomalies) > 0,
     savings |-> ins.savingsPotential.total > 0]

runAnalytics(serviceCosts, resources, history) ==
    LET opportunities == identifyOptimizationOpportunities(serviceCosts, resources)
    IN  [trend |-> analyzeCostTrends(history),
         opportunities |-> opportunities,
         savingsPotential |-> calculateSavingsPotential(opportunities)]

\* Eight days at 100 and one at 500: a history with an anomaly.
Spiked == Days([i \in 1..9 |-> [date |-> i, cost |-> IF i = 5 THEN 500 ELSE 100]])

InsightHistories ==
    {Spiked} \cup { h \in Histories : h = NoData \/ NonNegative(h) }

InitInsights ==
    /\ costData \in ServiceCostLists
    /\ resourceData \in ResourceLists(FleetProfiles, 1)
    /\ historicalData \in InsightHistories
    /\ costDocs = <<>> /\ generated = NoResult /\ trendAnalysis = NoResult
    /\ InsightsIdle
    /\ AnomalyIdle
    /\ MonitorIdle

\* processCloudData, step 2
RunAnalytics ==
    /\ analyticsResults = NoResult
    /\ analyticsResults' = runAnalytics(costData, resourceData, historicalData)
    /\ UNCHANGED <<insights, summaryText>>
    /\ UNCHANGED flowVars
    /\ UNCHANGED <<resourceData, costData, costDocs, generated>>
    /\ UNCHANGED <<anomalyVars, trendVars, monitorVars>>

\* processCloudData, step 3
GenerateInsights ==
    /\ analyticsResults # NoResult
    /\ insights = NoResult
    /\ LET out == generateInsights(costData, resourceData, historicalData)
       IN  /\ insights' = out.returned
           /\ costData' = out.serviceCosts
    /\ UNCHANGED <<summaryText, analyticsResults>>
    /\ UNCHANGED flowVars
    /\ UNCHANGED <<resourceData, costDocs, generated>>
    /\ UNCHANGED <<anomalyVars, trendVars, monitorVars>>

\* processCloudData, step 5
GenerateSummary ==
    /\ insights # NoResult
    /\ summaryText = NoResult
    /\ summaryText' = generateSummary(insights)
    /\ UNCHANGED <<insights, analyticsResults>>
    /\ UNCHANGED flowVars
    /\ UNCHANGED <<anomalyVars, recommendVars, trendVars, monitorVars>>

NextInsights == RunAnalytics \/ GenerateInsights \/ GenerateSummary
SpecInsights == InitInsights /\ [][NextInsights]_vars

\* C12: when the history is missing or has fewer than 7 points, the
\* callers of analyzeCostTrends do not take the result for a trend: the
\* summary carries no trend other than the sentinel, no anomalies are
\* reported, and the natural-language summary does not say that spending
\* is stable, increasing or decreasing.
C12_CallersCheckSentinel ==
    tooShort(historicalData) =>
        /\ insights # NoResult =>
              /\ insights.summary.trend = "insufficient_data"
              /\ insights.anomalies = <<>>
        /\ summaryText # NoResult =>
              summaryText.sentence \notin
                  {"remaining relatively stable", "showing an increasing trend",
                   "showing a decreasing trend"}

\* C20: no step of the analytics changes the caller's
\* costData.serviceCosts, resourceData or historicalData: each holds the
\* same elements in the same order after the step as before it.
C20_InputsNotMutated ==
    [][/\ costData' = costData
       /\ resourceData' = resourceData
       /\ historicalData' = historicalData]_vars

\* ------------------------------------------------------------------------
\* The routes of /api/data and DataFlowController.processCloudData
\*
\* costData, resourceData and historicalData stand for what
\* fetchFromDatabase builds from the user's stored costs and resources,
\* which no request changes; every request builds its own arrays from them.
\* A step of processCloudData either completes or throws; what it throws is
\* caught by processCloudData itself, which then returns its result object.
\* The catch blocks of the three routes run only if processCloudData
\* rejects or the route reads a property of undefined, and neither can
\* happen: result.data and result.metadata are always objects.
\* ------------------------------------------------------------------------

Endpoints ==
    {"POST /api/data/process", "GET /api/data/insights", "GET /api/data/analytics"}

\* const result = { success: false, data: { costs: null, ... }, metadata: {...} }
newResult ==
    [success |-> FALSE, error |-> "none", data |-> NoResult, analytics |-> NoResult]

At(pc) == request # NoResult /\ request.pc = pc

ReceiveRequest(endpoint) ==
    /\ request = NoResult
    /\ served < MaxRequests
    /\ request' = [endpoint |-> endpoint, pc |-> "fetch",
                   analyticsResults |-> NoResult, insights |-> NoResult]
    /\ result' = newResult
    /\ response' = NoResult
    /\ UNCHANGED <<Recommendation, served, insights, summaryText, analyticsResults>>
    /\ UNCHANGED <<anomalyVars, recommendVars, trendVars, monitorVars>>

\* a step that completes and hands on to the next
Completes(pc, next, local) ==
    /\ At(pc)
    /\ request' = [local EXCEPT !.pc = next]
    /\ UNCHANGED <<result, response, Recommendation, served,
                   insights, summaryText, analyticsResults>>
    /\ UNCHANGED <<anomalyVars, recommendVars, trendVars, monitorVars>>

\* a step that throws: catch (error) { result.error = error.message; return result }
Throws(pc) ==
    /\ At(pc)
    /\ request' = [request EXCEPT !.pc = "respond"]
    /\ result' = [result EXCEPT !.error = pc]
    /\ UNCHANGED <<response, Recommendation, served,
                   insights, summaryText, analyticsResults>>
    /\ UNCHANGED <<anomalyVars, recommendVars, trendVars, monitorVars>>

\* step 1
FetchFromDatabase == Completes("fetch", "analytics", request)
FetchFromDatabaseThrows == Throws("fetch")

\* step 2
RunAnalyticsStep ==
    Completes("analytics", "insights",
              [request EXCEPT !.analyticsResults =
                  runAnalytics(costData, resourceData, historicalData)])
RunAnalyticsThrows == Throws("analytics")

\* step 3
GenerateAIInsights ==
    Completes("insights", "save",
              [request EXCEPT !.insights =
                  generateInsights(costData, resourceData, historicalData).returned])
GenerateAIInsightsThrows == Throws("insights")

\* The document saveRecommendations builds of a recommendation.
recDoc(rec) ==
    [category |-> rec.category,
     priority |-> rec.priority,
     estimatedSavings |-> rec.estimatedSavings,
     resourceId |-> IF "resourceId" \in DOMAIN rec THEN rec.resourceId ELSE 0,
     service |-> IF "service" \in DOMAIN rec THEN rec.service ELSE "",
     status |-> "pending"]

insertMany(collection, docs) == collection \o docs

\* steps 4 and 5: saveRecommendations inserts the recommendations, and the
\* result object is filled in and returned.
SaveRecommendations ==
    /\ At("save")
    /\ LET recs == request.insights.recommendations
       IN  /\ Recommendation' =
                  insertMany(Recommendation, [k \in 1..Len(recs) |-> recDoc(recs[k])])
           /\ result' = [result EXCEPT
                            !.data = [insights |-> request.insights.summary,
                                      summary |-> generateSummary(request.insights),
                                      recommendations |-> Len(recs)],
                            !.analytics = request.analyticsResults,
                            !.success = TRUE]
    /\ request' = [request EXCEPT !.pc = "respond"]
    /\ UNCHANGED <<response, served, insights, summaryText, analyticsResults>>
    /\ UNCHANGED <<anomalyVars, recommendVars, trendVars, monitorVars>>

\* processCloudData has returned: the route answers.
\*   processData:  res.json(result)
\*   getInsights:  res.json({ success: true, data: { insights: result.data.insights, ... } })
\*   getAnalytics: res.json({ success: true, data: { costs: result.data.costs,
\*                                                   analytics: result.metadata.analytics } })
Respond ==
    /\ At("respond")
    /\ response' =
          IF request.endpoint = "POST /api/data/process"
          THEN [status |-> 200, success |-> result.success, error |-> result.error,
                data |-> result.data]
          ELSE IF request.endpoint = "GET /api/data/insights"
          THEN [status |-> 200, success |-> TRUE, error |-> "none",
                data |-> result.data]
          ELSE [status |-> 200, success |-> TRUE, error |-> "none",
                data |-> result.analytics]
    /\ request' = NoResult
    /\ served' = served + 1
    /\ UNCHANGED <<result, Recommendation, insights, summaryText, analyticsResults>>
    /\ UNCHANGED <<anomalyVars, recommendVars, trendVars, monitorVars>>

\* POST /api/recommendations/generate: the handler inserts what its rules
\* produce and answers with the inserted documents.
PostGenerateStored ==
    /\ request = NoResult
    /\ served < MaxRequests
    /\ LET recs == generateRecommendationsHandler(resourceData, costDocs)
       IN  /\ Recommendation' =
                  insertMany(Recommendation, [k \in 1..Len(recs) |-> recDoc(recs[k])])
           /\ response' = [status |-> 200, success |-> TRUE, error |-> "none",
                           data |-> [count |-> Len(recs)]]
    /\ result' = NoResult
    /\ served' = served + 1
    /\ UNCHANGED <<request, insights, summaryText, analyticsResults>>
    /\ UNCHANGED <<anomalyVars, recommendVars, trendVars, monitorVars>>

InitDataFlow ==
    /\ costData \in {ss \in ServiceCostLists : Len(ss) <= 1}
    /\ resourceData \in ResourceLists(FleetProfiles, 1)
    /\ historicalData \in {NoData, Spiked}
    /\ costDocs = <<>> /\ generated = NoResult /\ trendAnalysis = NoResult
    /\ InsightsIdle
    /\ AnomalyIdle
    /\ MonitorIdle

NextDataFlow ==
    \/ \E endpoint \in Endpoints : ReceiveRequest(endpoint)
    \/ FetchFromDatabase
    \/ FetchFromDatabaseThrows
    \/ RunAnalyticsStep
    \/ RunAnalyticsThrows
    \/ GenerateAIInsights
    \/ GenerateAIInsightsThrows
    \/ SaveRecommendations
    \/ Respond
    \/ PostGenerateStored

SpecDataFlow == InitDataFlow /\ [][NextDataFlow]_vars

\* C21: when a step of processCloudData has failed, the request is answered
\* with status 500 and the error message, and never with success: true.
C21_FailureAnsweredWith500 ==
    (response # NoResult /\ result # NoResult /\ result.error # "none") =>
        /\ response.status = 500
        /\ response.error = result.error
        /\ response.success # TRUE

\* C29: generating twice over unchanged resources and costs leaves no two
\* pending recommendations for the same resource and category in the
\* stored set.
C29_NoDuplicatePending ==
    \A i, j \in 1..Len(Recommendation) :
        (/\ i < j
         /\ Recommendation[i].status = "pending"
         /\ Recommendation[j].status = "pending"
         /\ Recommendation[i].category = Recommendation[j].category
         /\ Recommendation[i].resourceId = Recommendation[j].resourceId
         /\ Recommendation[i].service = Recommendation[j].service)
        => FALSE

\* ======================================================================
\* CostMonitorService: scheduled and on-demand alerting.
\*
\* Time is counted in hours since the server started, which is taken to be
\* midnight of a Wednesday the 16th; cost dates before the start are
\* negative.  Every await of the service is a separate step, so invocations
\* in different slots interleave exactly at the awaits.  A Mongoose document
\* returned by find() carries the schema paths of the stored document;
\* properties outside the schema that the code assigns to it (props) live on
\* that object only, and save() writes the modified schema paths.
\* ======================================================================

MaxClock == 12
MaxRuns == 2
MaxCosts == 3

oneDayHours == 24
spikeThreshold == 50

\* -- models/Budget and models/Cost
Threshold(pct, recipients) == [percentage |-> pct, recipients |-> recipients]

BudgetDoc(user, provider, amount, per, thresholds, status, alertsEnabled) ==
    [user |-> user, cloudProvider |-> provider, amount |-> amount, period |-> per,
     thresholds |-> thresholds, actualSpend |-> 0, status |-> status,
     alertsEnabled |-> alertsEnabled]

CostDoc(user, provider, service, cost, date) ==
    [user |-> user, cloudProvider |-> provider, serviceName |-> service,
     cost |-> cost, date |-> date]

Monthly == BudgetDoc("u1", "all", 100 * Dollar, "monthly",
                     <<Threshold(50, 1), Threshold(80, 2)>>, "active", TRUE)
DailyAws == BudgetDoc("u1", "aws", 35 * Dollar, "daily",
                      <<Threshold(80, 1), Threshold(80, 0)>>, "active", TRUE)
Paused == [Monthly EXCEPT !.status = "paused"]
Muted == [Monthly EXCEPT !.alertsEnabled = FALSE]
Azure == BudgetDoc("u2", "azure", 0, "weekly", <<Threshold(50, 1)>>, "active", TRUE)

BudgetCollections ==
    { <<Monthly>>, <<DailyAws>>, <<Monthly, DailyAws>>, <<Paused, Monthly>>,
      <<Muted, Azure>> }

Spiking == << CostDoc("u1", "aws", "EC2", 20 * Dollar, -240),
              CostDoc("u1", "aws", "EC2", 40 * Dollar, -24) >>
Steady == << CostDoc("u1", "aws", "EC2", 20 * Dollar, -240),
             CostDoc("u1", "aws", "EC2", 20 * Dollar, -24) >>
SmallSpike == << CostDoc("u1", "gcp", "Storage", 4 * Dollar, -240),
                 CostDoc("u1", "gcp", "Storage", 8 * Dollar, -24) >>
TwoSpikes == Spiking \o << CostDoc("u2", "azure", "VM", 30 * Dollar, -200),
                           CostDoc("u2", "azure", "VM", 90 * Dollar, -156) >>

\* -- checkBudgetThresholds
startOfPeriod(per, now) ==
    CASE per = "daily" -> (now \div 24) * 24
      [] per = "weekly" -> now - 24 * ((3 + now \div 24) % 7)
      [] per = "quarterly" -> -(46 * 24)
      [] per = "yearly" -> -(46 * 24)
      [] OTHER -> -(15 * 24)

matchBudgetCosts(costs, budget, startDate) ==
    { i \in 1..Len(costs) :
        /\ costs[i].user = budget.user
        /\ costs[i].date >= startDate
        /\ budget.cloudProvider # "all" => costs[i].cloudProvider = budget.cloudProvider }

sumCost(costs, I) == SetSum([i \in 1..Len(costs) |-> costs[i].cost], I)

\* percentageUsed >= pct, with percentageUsed = actualSpend / amount * 100
\* for a positive amount and 0 otherwise.
percentageUsedAtLeast(actualSpend, amount, pct) ==
    IF amount > 0 THEN actualSpend * 100 >= pct * amount ELSE 0 >= pct

\* Budget.find({ status: 'active', alertsEnabled: true }): the matching
\* documents, each hydrated from its stored schema paths.
hydrate(id) == [id |-> id, doc |-> Budget[id], props |-> {}, modified |-> {}]

ActiveIds == { id \in 1..Len(Budget) :
                 Budget[id].status = "active" /\ Budget[id].alertsEnabled }

RECURSIVE findActive(_)
findActive(id) ==
    IF id > Len(Budget) THEN <<>>
    ELSE (IF id \in ActiveIds THEN <<hydrate(id)>> ELSE <<>>) \o findActive(id + 1)

\* Assignment to a schema path: the path is modified when the value changes.
setPath(local, path, value) ==
    IF local.doc[path] = value THEN local
    ELSE [local EXCEPT !.doc[path] = value, !.modified = @ \cup {path}]

\* budget.save(): writes the modified schema paths of the document.
save(local) ==
    [Budget EXCEPT ![local.id] =
        [p \in DOMAIN @ |-> IF p \in local.modified THEN local.doc[p] ELSE @[p]]]

\* budget[lastAlertKey]: the property, if the object has it.
hasLastAlert(local, pct) == \E p \in local.props : p.key = pct
lastAlert(local, pct) == (CHOOSE p \in local.props : p.key = pct).at
setLastAlert(local, pct, now) ==
    [local EXCEPT !.props = {p \in @ : p.key # pct} \cup {[key |-> pct, at |-> now]}]

cooldownOver(local, pct, now) ==
    \/ ~hasLastAlert(local, pct)
    \/ now - lastAlert(local, pct) > oneDayHours

\* The first threshold from position k on that is crossed and not cooling
\* down; 0 when there is none.
nextThreshold(local, actualSpend, k, now) ==
    LET due == { j \in k..Len(local.doc.thresholds) :
                   /\ percentageUsedAtLeast(actualSpend, local.doc.amount,
                                            local.doc.thresholds[j].percentage)
                   /\ cooldownOver(local, local.doc.thresholds[j].percentage, now) }
    IN  IF due = {} THEN 0 ELSE CHOOSE j \in due : \A i \in due : j <= i

Idle == [pc |-> "idle"]
InFlight == { s \in Slots : runs[s].pc # "idle" }

Start(s, job, first) ==
    /\ runs[s].pc = "idle"
    /\ runCount < MaxRuns
    /\ runCount' = runCount + 1
    /\ overlapped' = overlapped \cup { {runCount + 1, runs[o].run} : o \in InFlight }
    /\ runs' = [runs EXCEPT ![s] = [pc |-> first, job |-> job, run |-> runCount + 1,
                                    alertsSent |-> 0]]

\* Top of the loop over budgets: fixes now and startDate and issues the
\* aggregate, or returns when the budgets are exhausted.
enterBudget(r, b) ==
    IF b > Len(r.docs) THEN Idle
    ELSE [r EXCEPT !.b = b, !.pc = "aggregate",
                   !.startDate = startOfPeriod(r.docs[b].doc.period, clock)]

\* The loop over thresholds from position k on: calls sendBudgetAlert for
\* the first one that is due, or moves to the next budget.
ContinueThresholds(s, r, k) ==
    LET local == r.docs[r.b]
        j == nextThreshold(local, r.actualSpend, k, clock)
    IN  IF j = 0
        THEN /\ runs' = [runs EXCEPT ![s] = enterBudget(r, r.b + 1)]
             /\ sent' = sent
        ELSE /\ runs' = [runs EXCEPT ![s] = [r EXCEPT !.k = j, !.pc = "sendBudgetAlert"]]
             /\ sent' = Append(sent, [kind |-> "budget", budget |-> local.id,
                                      threshold |-> local.doc.thresholds[j].percentage,
                                      at |-> clock, run |-> r.run])

StartCheckBudgets(s) ==
    /\ Start(s, "checkBudgetThresholds", "find")
    /\ UNCHANGED <<clock, Budget, Cost, sent>>
    /\ UNCHANGED <<anomalyVars, recommendVars, trendVars, insightVars>>
    /\ UNCHANGED schedVars

FindBudgets(s) ==
    /\ runs[s].pc = "find"
    /\ LET r == [pc |-> "find", job |-> runs[s].job, run |-> runs[s].run,
                 alertsSent |-> 0, docs |-> findActive(1), b |-> 0, k |-> 0,
                 startDate |-> 0, actualSpend |-> 0]
       IN  runs' = [runs EXCEPT ![s] = enterBudget(r, 1)]
    /\ UNCHANGED <<clock, Budget, Cost, runCount, overlapped, sent>>
    /\ UNCHANGED <<anomalyVars, recommendVars, trendVars, insightVars>>
    /\ UNCHANGED schedVars

AggregateSpend(s) ==
    /\ runs[s].pc = "aggregate"
    /\ LET r == runs[s]
           local == r.docs[r.b]
           actualSpend == sumCost(Cost, matchBudgetCosts(Cost, local.doc, r.startDate))
           spent == setPath(local, "actualSpend", actualSpend)
           marked == IF percentageUsedAtLeast(actualSpend, local.doc.amount, 100)
                     THEN setPath(spent, "status", "exceeded") ELSE spent
       IN  runs' = [runs EXCEPT ![s] = [r EXCEPT !.actualSpend = actualSpend,
                                                 !.docs[r.b] = marked,
                                                 !.pc = "saveSpend"]]
    /\ UNCHANGED <<clock, Budget, Cost, runCount, overlapped, sent>>
    /\ UNCHANGED <<anomalyVars, recommendVars, trendVars, insightVars>>
    /\ UNCHANGED schedVars

SaveSpend(s) ==
    /\ runs[s].pc = "saveSpend"
    /\ LET r == runs[s]
           saved == [r EXCEPT !.docs[r.b].modified = {}]
       IN  /\ Budget' = save(r.docs[r.b])
           /\ ContinueThresholds(s, saved, 1)
    /\ UNCHANGED <<clock, Cost, runCount, overlapped>>
    /\ UNCHANGED <<anomalyVars, recommendVars, trendVars, insightVars>>
    /\ UNCHANGED schedVars

BudgetAlertSent(s) ==
    /\ runs[s].pc = "sendBudgetAlert"
    /\ LET r == runs[s]
           local == r.docs[r.b]
           threshold == local.doc.thresholds[r.k]
       IN  runs' = [runs EXCEPT ![s] =
                       [r EXCEPT !.alertsSent = @ + threshold.recipients + 1,
                                 !.docs[r.b] = setLastAlert(local, threshold.percentage, clock),
                                 !.pc = "saveAlert"]]
    /\ UNCHANGED <<clock, Budget, Cost, runCount, overlapped, sent>>
    /\ UNCHANGED <<anomalyVars, recommendVars, trendVars, insightVars>>
    /\ UNCHANGED schedVars

SaveAlert(s) ==
    /\ runs[s].pc = "saveAlert"
    /\ LET r == runs[s]
           saved == [r EXCEPT !.docs[r.b].modified = {}]
       IN  /\ Budget' = save(r.docs[r.b])
           /\ ContinueThresholds(s, saved, r.k + 1)
    /\ UNCHANGED <<clock, Cost, runCount, overlapped>>
    /\ UNCHANGED <<anomalyVars, recommendVars, trendVars, insightVars>>
    /\ UNCHANGED schedVars

\* -- the environment: time passes, cost records arrive
Tick ==
    /\ clock + 12 <= MaxClock
    /\ clock' = clock + 12
    /\ UNCHANGED <<Budget, Cost, runs, runCount, overlapped, sent>>
    /\ UNCHANGED <<anomalyVars, recommendVars, trendVars, insightVars>>
    /\ UNCHANGED schedVars

NewCosts == {30 * Dollar, 70 * Dollar}

RecordCost ==
    /\ Len(Cost) < MaxCosts
    /\ \E cost \in NewCosts :
          Cost' = Append(Cost, CostDoc("u1", "aws", "EC2", cost, clock))
    /\ UNCHANGED <<clock, Budget, runs, runCount, overlapped, sent>>
    /\ UNCHANGED <<anomalyVars, recommendVars, trendVars, insightVars>>
    /\ UNCHANGED schedVars

InitBudgets ==
    /\ InsightsIdle
    /\ clock = 0
    /\ Budget \in BudgetCollections
    /\ Cost \in {SmallSpike, Spiking}
    /\ runs = [s \in Slots |-> Idle]
    /\ runCount = 0 /\ overlapped = {} /\ sent = <<>>
    /\ SchedIdle
    /\ AnomalyIdle /\ RecommendIdle /\ TrendIdle

NextBudgets ==
    \/ Tick
    \/ RecordCost
    \/ \E s \in Slots : StartCheckBudgets(s)
    \/ \E s \in Slots : FindBudgets(s)
    \/ \E s \in Slots : AggregateSpend(s)
    \/ \E s \in Slots : SaveSpend(s)
    \/ \E s \in Slots : BudgetAlertSent(s)
    \/ \E s \in Slots : SaveAlert(s)

SpecBudgets == InitBudgets /\ [][NextBudgets]_vars

\* -- GET /api/budgets and the status of a budget
\* getBudgets enriches every budget of the user: it aggregates the spend of
\* the budget's period and writes actualSpend and status with
\* findByIdAndUpdate.  The request is taken as one step: nothing else runs
\* between its awaits.
spendOf(budget) ==
    sumCost(Cost, matchBudgetCosts(Cost, budget, startOfPeriod(budget.period, clock)))

findByIdAndUpdate(budget) ==
    [budget EXCEPT
        !.actualSpend = spendOf(budget),
        !.status = IF percentageUsedAtLeast(spendOf(budget), budget.amount, 100)
                   THEN "exceeded" ELSE "active"]

Users == {"u1", "u2"}

GetBudgets(user) ==
    /\ Budget' = [id \in 1..Len(Budget) |->
                     IF Budget[id].user = user THEN findByIdAndUpdate(Budget[id])
                     ELSE Budget[id]]
    /\ UNCHANGED <<clock, Cost, runs, runCount, overlapped, sent>>
    /\ UNCHANGED <<anomalyVars, recommendVars, trendVars, insightVars>>
    /\ UNCHANGED schedVars

\* Costs of u1 in the current month that add up to 130 dollars.
Overspent == Spiking \o << CostDoc("u1", "aws", "EC2", 70 * Dollar, -12) >>

Ended == [Monthly EXCEPT !.status = "completed"]

NextBudgetStatus ==
    \/ \E user \in Users : GetBudgets(user)
    \/ \E s \in Slots : StartCheckBudgets(s)
    \/ \E s \in Slots : FindBudgets(s)
    \/ \E s \in Slots : AggregateSpend(s)
    \/ \E s \in Slots : SaveSpend(s)
    \/ \E s \in Slots : BudgetAlertSent(s)
    \/ \E s \in Slots : SaveAlert(s)

\* Budgets that are active when the server starts, with costs that do not
\* change.
InitExceeded ==
    /\ InsightsIdle
    /\ clock = 0
    /\ Budget \in { <<Monthly>>, <<DailyAws>>, <<Monthly, DailyAws>>, <<Muted, Azure>> }
    /\ Cost \in {Spiking, Overspent}
    /\ runs = [s \in Slots |-> Idle]
    /\ runCount = 0 /\ overlapped = {} /\ sent = <<>>
    /\ SchedIdle
    /\ AnomalyIdle /\ RecommendIdle /\ TrendIdle

SpecExceeded == InitExceeded /\ [][NextBudgetStatus]_vars

\* Budgets some of which are paused or completed.
InitBudgetStatus ==
    /\ InsightsIdle
    /\ clock = 0
    /\ Budget \in { <<Paused>>, <<Ended>>, <<Paused, Monthly>>, <<Ended, DailyAws>> }
    /\ Cost \in {Spiking, Overspent}
    /\ runs = [s \in Slots |-> Idle]
    /\ runCount = 0 /\ overlapped = {} /\ sent = <<>>
    /\ SchedIdle
    /\ AnomalyIdle /\ RecommendIdle /\ TrendIdle

SpecBudgetStatus == InitBudgetStatus /\ [][NextBudgetStatus]_vars

\* An invocation of checkBudgetThresholds returns in this step.
Completes_checkBudgetThresholds ==
    \E s \in Slots :
        /\ runs[s].pc # "idle"
        /\ runs[s].job = "checkBudgetThresholds"
        /\ runs'[s].pc = "idle"

AlertedFor(alerts, id, pct) ==
    \E i \in 1..Len(alerts) :
        /\ alerts[i].kind = "budget"
        /\ alerts[i].budget = id
        /\ alerts[i].threshold = pct

\* C27: for an alerts-enabled budget and a threshold T of it, when the
\* spend of the period is at or above T% of the amount and no alert for T
\* was sent in the last 24 hours, the checkBudgetThresholds run that
\* completes next has sent an alert for T.  (In SpecExceeded no time passes:
\* every alert sent is one of the last 24 hours.)
C27_DueThresholdAlerted ==
    [][Completes_checkBudgetThresholds =>
          \A id \in 1..Len(Budget) :
              \A j \in 1..Len(Budget[id].thresholds) :
                  (/\ Budget[id].alertsEnabled
                   /\ percentageUsedAtLeast(spendOf(Budget[id]), Budget[id].amount,
                                            Budget[id].thresholds[j].percentage))
                  => AlertedFor(sent', id, Budget[id].thresholds[j].percentage)]_vars

\* C28: a budget whose status is paused or completed keeps that status in
\* every step of GET /api/budgets and of the monitoring runs, and no budget
\* alert is sent for it.
C28_PausedStaysPaused ==
    [][/\ \A id \in 1..Len(Budget) :
             Budget[id].status \in {"paused", "completed"}
                => Budget'[id].status = Budget[id].status
       /\ \A i \in (Len(sent) + 1)..Len(sent') :
             sent'[i].kind = "budget"
                => Budget[sent'[i].budget].status \notin {"paused", "completed"}]_vars

\* -- detectCostSpikes
\* $match on the date window, then $group by (cloudProvider, serviceName):
\* one record per group with the sum and the number of its documents, so
\* that avgDailyCost = totalCost / days.
groupCosts(costs, from, to, toInclusive) ==
    LET matched == { i \in 1..Len(costs) :
                       /\ costs[i].date >= from
                       /\ IF toInclusive THEN costs[i].date <= to ELSE costs[i].date < to }
        keys == { <<costs[i].cloudProvider, costs[i].serviceName>> : i \in matched }
        of(key) == { i \in matched :
                       <<costs[i].cloudProvider, costs[i].serviceName>> = key }
    IN  { [cloudProvider |-> key[1], serviceName |-> key[2],
           totalCost |-> sumCost(costs, of(key)), days |-> Cardinality(of(key))]
          : key \in keys }

\* The test of lines 554-560 for one recent group against the previous
\* groups, with the averages kept as totalCost / days.
isSpikeAtLeast(recent, previousCosts, pct) ==
    \E previous \in previousCosts :
        /\ previous.cloudProvider = recent.cloudProvider
        /\ previous.serviceName = recent.serviceName
        /\ previous.totalCost > 0
        /\ recent.totalCost * previous.days > previous.totalCost * recent.days
        /\ 100 * (recent.totalCost * previous.days - previous.totalCost * recent.days)
              >= pct * previous.totalCost * recent.days
        /\ recent.totalCost > 10 * Dollar * recent.days

isSpike(recent, previousCosts) == isSpikeAtLeast(recent, previousCosts, spikeThreshold)

\* Cost.findOne({ cloudProvider, serviceName })
findOne(costs, provider, service) ==
    { i \in 1..Len(costs) :
        costs[i].cloudProvider = provider /\ costs[i].serviceName = service }

StartDetectSpikes(s) ==
    /\ Start(s, "detectCostSpikes", "recent")
    /\ UNCHANGED <<clock, Budget, Cost, sent>>
    /\ UNCHANGED <<anomalyVars, recommendVars, trendVars, insightVars>>
    /\ UNCHANGED schedVars

AggregateRecent(s) ==
    /\ runs[s].pc = "recent"
    /\ runs' = [runs EXCEPT ![s] =
                   [pc |-> "previous", job |-> runs[s].job, run |-> runs[s].run,
                    alertsSent |-> 0, now |-> clock,
                    recentCosts |-> groupCosts(Cost, clock - 7 * 24, clock, TRUE),
                    todo |-> {}]]
    /\ UNCHANGED <<clock, Budget, Cost, runCount, overlapped, sent>>
    /\ UNCHANGED <<anomalyVars, recommendVars, trendVars, insightVars>>
    /\ UNCHANGED schedVars

\* The second aggregate returns; the loop over the recent groups then stops
\* at its first await, which only a spiking group reaches.
AggregatePrevious(s) ==
    /\ runs[s].pc = "previous"
    /\ LET r == runs[s]
           previousCosts == groupCosts(Cost, r.now - 14 * 24, r.now - 7 * 24, FALSE)
           spikes == { recent \in r.recentCosts : isSpike(recent, previousCosts) }
       IN  runs' = [runs EXCEPT ![s] =
                       IF spikes = {} THEN Idle
                       ELSE [r EXCEPT !.todo = spikes, !.pc = "findOne"]]
    /\ UNCHANGED <<clock, Budget, Cost, runCount, overlapped, sent>>
    /\ UNCHANGED <<anomalyVars, recommendVars, trendVars, insightVars>>
    /\ UNCHANGED schedVars

\* Cost.findOne for the next spiking group; the order in which $group
\* delivers the groups is not fixed.
FindUserCost(s) ==
    /\ runs[s].pc = "findOne"
    /\ \E recent \in runs[s].todo :
          LET r == [runs[s] EXCEPT !.todo = @ \ {recent}]
              userCost == findOne(Cost, recent.cloudProvider, recent.serviceName)
          IN  runs' = [runs EXCEPT ![s] =
                          IF userCost # {}
                          THEN [pc |-> "findBudgets", job |-> r.job, run |-> r.run,
                                alertsSent |-> r.alertsSent, now |-> r.now,
                                recentCosts |-> r.recentCosts, todo |-> r.todo,
                                spike |-> recent]
                          ELSE IF r.todo = {} THEN Idle ELSE r]
    /\ UNCHANGED <<clock, Budget, Cost, runCount, overlapped, sent>>
    /\ UNCHANGED <<anomalyVars, recommendVars, trendVars, insightVars>>
    /\ UNCHANGED schedVars

\* Budget.find({ user }) returns (its result is not used) and sendSpikeAlert
\* is called.
FindUserBudgets(s) ==
    /\ runs[s].pc = "findBudgets"
    /\ runs' = [runs EXCEPT ![s].pc = "sendSpikeAlert"]
    /\ sent' = Append(sent, [kind |-> "spike",
                             cloudProvider |-> runs[s].spike.cloudProvider,
                             serviceName |-> runs[s].spike.serviceName,
                             at |-> clock, run |-> runs[s].run])
    /\ UNCHANGED <<clock, Budget, Cost, runCount, overlapped>>
    /\ UNCHANGED <<anomalyVars, recommendVars, trendVars, insightVars>>
    /\ UNCHANGED schedVars

\* sendSpikeAlert returns one e-mail alert and one Slack alert.
SpikeAlertSent(s) ==
    /\ runs[s].pc = "sendSpikeAlert"
    /\ LET r == runs[s]
       IN  runs' = [runs EXCEPT ![s] =
                       IF r.todo = {} THEN Idle
                       ELSE [pc |-> "findOne", job |-> r.job, run |-> r.run,
                             alertsSent |-> r.alertsSent + 2, now |-> r.now,
                             recentCosts |-> r.recentCosts, todo |-> r.todo]]
    /\ UNCHANGED <<clock, Budget, Cost, runCount, overlapped, sent>>
    /\ UNCHANGED <<anomalyVars, recommendVars, trendVars, insightVars>>
    /\ UNCHANGED schedVars

InitSpikes ==
    /\ InsightsIdle
    /\ clock = 0
    /\ Budget \in {<<>>, <<Monthly>>}
    /\ Cost \in {<<>>, Steady, Spiking, SmallSpike, TwoSpikes}
    /\ runs = [s \in Slots |-> Idle]
    /\ runCount = 0 /\ overlapped = {} /\ sent = <<>>
    /\ SchedIdle
    /\ AnomalyIdle /\ RecommendIdle /\ TrendIdle

NextSpikes ==
    \/ Tick
    \/ \E s \in Slots : StartDetectSpikes(s)
    \/ \E s \in Slots : AggregateRecent(s)
    \/ \E s \in Slots : AggregatePrevious(s)
    \/ \E s \in Slots : FindUserCost(s)
    \/ \E s \in Slots : FindUserBudgets(s)
    \/ \E s \in Slots : SpikeAlertSent(s)

SpecSpikes == InitSpikes /\ [][NextSpikes]_vars

\* -- sendDailySummary
\* The summary is sent at 09:00; the server started at midnight, so that
\* 09:00 of its first day is hour 9.

\* $match { date: { $gte: startOfDay } }
fromStartOfDay(costs, startOfDay) == { i \in 1..Len(costs) : costs[i].date >= startOfDay }

\* $group by serviceName, $sort by cost descending, $limit 5: the groups
\* that fewer than five groups exceed.
topFive(costs, I) ==
    LET names == { costs[i].serviceName : i \in I }
        costOf(name) == sumCost(costs, { i \in I : costs[i].serviceName = name })
        groups == { [name |-> name, cost |-> costOf(name)] : name \in names }
    IN  { g \in groups : Cardinality({ h \in groups : h.cost > g.cost }) < 5 }

\* Budget.findOne({ period: 'monthly' }): dailyBudget = amount / 30, or 1000
\* without a monthly budget; kept as thirty times the daily budget.
thirtyDailyBudgets ==
    LET monthly == { id \in 1..Len(Budget) : Budget[id].period = "monthly" }
    IN  IF monthly = {} THEN 30 * 1000 * Dollar
        ELSE Budget[CHOOSE id \in monthly : \A other \in monthly : id <= other].amount

\* const now = new Date(); const startOfDay = new Date(now.setHours(0, 0, 0, 0))
StartDailySummary(s) ==
    /\ runs[s].pc = "idle"
    /\ runCount < MaxRuns
    /\ clock % 24 = 9
    /\ runCount' = runCount + 1
    /\ overlapped' = overlapped \cup { {runCount + 1, runs[o].run} : o \in InFlight }
    /\ runs' = [runs EXCEPT ![s] =
                   [pc |-> "todayCosts", job |-> "sendDailySummary",
                    run |-> runCount + 1, alertsSent |-> 0,
                    startOfDay |-> (clock \div 24) * 24,
                    totalSpend |-> 0, topServices |-> {}]]
    /\ UNCHANGED <<clock, Budget, Cost, sent>>
    /\ UNCHANGED <<anomalyVars, recommendVars, trendVars, insightVars>>
    /\ UNCHANGED schedVars

AggregateTodayCosts(s) ==
    /\ runs[s].pc = "todayCosts"
    /\ runs' = [runs EXCEPT
                   ![s].totalSpend = sumCost(Cost, fromStartOfDay(Cost, runs[s].startOfDay)),
                   ![s].pc = "topServices"]
    /\ UNCHANGED <<clock, Budget, Cost, runCount, overlapped, sent>>
    /\ UNCHANGED <<anomalyVars, recommendVars, trendVars, insightVars>>
    /\ UNCHANGED schedVars

AggregateTopServices(s) ==
    /\ runs[s].pc = "topServices"
    /\ runs' = [runs EXCEPT
                   ![s].topServices = topFive(Cost, fromStartOfDay(Cost, runs[s].startOfDay)),
                   ![s].pc = "findBudget"]
    /\ UNCHANGED <<clock, Budget, Cost, runCount, overlapped, sent>>
    /\ UNCHANGED <<anomalyVars, recommendVars, trendVars, insightVars>>
    /\ UNCHANGED schedVars

\* Budget.findOne returns and sendSummaryAlert is called.
FindMonthlyBudget(s) ==
    /\ runs[s].pc = "findBudget"
    /\ runs' = [runs EXCEPT ![s].pc = "sendSummaryAlert"]
    /\ sent' = Append(sent, [kind |-> "summary", period |-> "Daily",
                             totalSpend |-> runs[s].totalSpend,
                             topServices |-> runs[s].topServices,
                             thirtyDailyBudgets |-> thirtyDailyBudgets,
                             at |-> clock, run |-> runs[s].run])
    /\ UNCHANGED <<clock, Budget, Cost, runCount, overlapped>>
    /\ UNCHANGED <<anomalyVars, recommendVars, trendVars, insightVars>>
    /\ UNCHANGED schedVars

SummaryAlertSent(s) ==
    /\ runs[s].pc = "sendSummaryAlert"
    /\ runs' = [runs EXCEPT ![s] = Idle]
    /\ UNCHANGED <<clock, Budget, Cost, runCount, overlapped, sent>>
    /\ UNCHANGED <<anomalyVars, recommendVars, trendVars, insightVars>>
    /\ UNCHANGED schedVars

\* Cost records of yesterday (hours -24 to -1) and of today before 09:00.
SummaryCosts ==
    { CostDoc("u1", "aws", "EC2", 20 * Dollar, -15),
      CostDoc("u1", "aws", "S3", 5 * Dollar, -1),
      CostDoc("u1", "aws", "EC2", 40 * Dollar, 1),
      CostDoc("u2", "azure", "VM", 10 * Dollar, 8) }

InitSummary ==
    /\ InsightsIdle
    /\ clock = 9
    /\ Budget \in {<<>>, <<Monthly>>}
    /\ Cost \in SeqsUpTo(SummaryCosts, 2)
    /\ runs = [s \in Slots |-> Idle]
    /\ runCount = 0 /\ overlapped = {} /\ sent = <<>>
    /\ SchedIdle
    /\ AnomalyIdle /\ RecommendIdle /\ TrendIdle

NextSummary ==
    \/ RecordCost
    \/ \E s \in Slots : StartDailySummary(s)
    \/ \E s \in Slots : AggregateTodayCosts(s)
    \/ \E s \in Slots : AggregateTopServices(s)
    \/ \E s \in Slots : FindMonthlyBudget(s)
    \/ \E s \in Slots : SummaryAlertSent(s)

SpecSummary == InitSummary /\ [][NextSummary]_vars

\* The cost records dated on the calendar day before hour `at`.
PreviousDay(at) ==
    { i \in 1..Len(Cost) :
        /\ Cost[i].date >= (at \div 24) * 24 - 24
        /\ Cost[i].date < (at \div 24) * 24 }

\* C22: the daily summary reports the previous day's spending: its total
\* spend and its top services are computed from exactly the cost records
\* dated on the calendar day before the day it is sent.
C22_SummaryOfPreviousDay ==
    \A i \in 1..Len(sent) :
        sent[i].kind = "summary" =>
            /\ sent[i].totalSpend = sumCost(Cost, PreviousDay(sent[i].at))
            /\ sent[i].topServices = topFive(Cost, PreviousDay(sent[i].at))

\* -- startMonitoring (server/index.js)
\* Time is counted in half hours.  wall is the time elapsed since the local
\* midnight before the server started; a Date built from local fields
\* (new Date(year, month, date, 9, 0, 0)) and getTime() follow the rules of
\* the server's time zone, which may move the local clock by an hour at
\* some instant.  The callbacks of the timers call the service without
\* awaiting it; fired holds each call.

halfHoursPerDay == 48
nineAMHalfHours == 18

NoClockChange == [none |-> TRUE]

\* The local clock is moved by `hours` at the elapsed instant `at`.
ClockChange(at, hours) == [none |-> FALSE, at |-> at, hours |-> hours]

\* Local time (half hours since the local midnight before the start) at
\* the elapsed instant t.
localTime(t) ==
    IF zone # NoClockChange /\ t >= zone.at THEN t + 2 * zone.hours ELSE t

\* new Date(y, m, d, 9, 0, 0).getTime(): the instant at which the local
\* clock shows 09:00 on the local day of instant t.
nineAM(t) ==
    LET local == (localTime(t) \div halfHoursPerDay) * halfHoursPerDay + nineAMHalfHours
    IN  IF zone # NoClockChange /\ local - 2 * zone.hours >= zone.at
        THEN local - 2 * zone.hours ELSE local

\* const delay = timeToNineAM > 0 ? timeToNineAM : timeToNineAM + 24 h
delay(now) ==
    LET timeToNineAM == nineAM(now) - now
    IN  IF timeToNineAM > 0 THEN timeToNineAM ELSE timeToNineAM + halfHoursPerDay

StartMonitoring ==
    /\ timers = NoResult
    /\ timers' = [budgets |-> wall + 2, spikes |-> wall + 1,
                  summary |-> wall + delay(wall), summaryInterval |-> FALSE,
                  startedAt |-> wall]
    /\ UNCHANGED <<wall, zone, fired>>
    /\ UNCHANGED <<clock, Budget, Cost, runs, runCount, overlapped, sent>>
    /\ UNCHANGED <<anomalyVars, recommendVars, trendVars, insightVars>>

Invoked(job) == [job |-> job, at |-> wall, local |-> localTime(wall)]

\* setInterval(..., 60 * 60 * 1000)
BudgetTimer ==
    /\ timers # NoResult /\ timers.budgets = wall
    /\ fired' = fired \cup {Invoked("checkBudgetThresholds")}
    /\ timers' = [timers EXCEPT !.budgets = wall + 2]
    /\ UNCHANGED <<wall, zone>>
    /\ UNCHANGED <<clock, Budget, Cost, runs, runCount, overlapped, sent>>
    /\ UNCHANGED <<anomalyVars, recommendVars, trendVars, insightVars>>

\* setInterval(..., 30 * 60 * 1000)
SpikeTimer ==
    /\ timers # NoResult /\ timers.spikes = wall
    /\ fired' = fired \cup {Invoked("detectCostSpikes")}
    /\ timers' = [timers EXCEPT !.spikes = wall + 1]
    /\ UNCHANGED <<wall, zone>>
    /\ UNCHANGED <<clock, Budget, Cost, runs, runCount, overlapped, sent>>
    /\ UNCHANGED <<anomalyVars, recommendVars, trendVars, insightVars>>

\* setTimeout(..., delay): the first summary, which starts the interval
SummaryTimeout ==
    /\ timers # NoResult /\ timers.summary = wall /\ ~timers.summaryInterval
    /\ fired' = fired \cup {Invoked("sendDailySummary")}
    /\ timers' = [timers EXCEPT !.summary = wall + halfHoursPerDay,
                                !.summaryInterval = TRUE]
    /\ UNCHANGED <<wall, zone>>
    /\ UNCHANGED <<clock, Budget, Cost, runs, runCount, overlapped, sent>>
    /\ UNCHANGED <<anomalyVars, recommendVars, trendVars, insightVars>>

\* setInterval(..., 24 * 60 * 60 * 1000)
SummaryInterval ==
    /\ timers # NoResult /\ timers.summary = wall /\ timers.summaryInterval
    /\ fired' = fired \cup {Invoked("sendDailySummary")}
    /\ timers' = [timers EXCEPT !.summary = wall + halfHoursPerDay]
    /\ UNCHANGED <<wall, zone>>
    /\ UNCHANGED <<clock, Budget, Cost, runs, runCount, overlapped, sent>>
    /\ UNCHANGED <<anomalyVars, recommendVars, trendVars, insightVars>>

\* Half an hour passes once every timer that is due has run.
HalfHourPasses ==
    /\ timers # NoResult
    /\ wall \notin {timers.budgets, timers.spikes, timers.summary}
    /\ wall < MaxWall
    /\ wall' = wall + 1
    /\ UNCHANGED <<zone, timers, fired>>
    /\ UNCHANGED <<clock, Budget, Cost, runs, runCount, overlapped, sent>>
    /\ UNCHANGED <<anomalyVars, recommendVars, trendVars, insightVars>>

\* The server starts at any half hour of a day; its zone has no clock
\* change, or moves the clock forward at 02:00 or back at 03:00 of the next
\* day.
InitSchedule ==
    /\ wall \in 0..(halfHoursPerDay - 1)
    /\ zone \in {NoClockChange, ClockChange(halfHoursPerDay + 4, 1),
                 ClockChange(halfHoursPerDay + 6, -1)}
    /\ timers = NoResult
    /\ fired = {}
    /\ clock = 0 /\ Budget = <<>> /\ Cost = <<>>
    /\ runs = [s \in Slots |-> Idle]
    /\ runCount = 0 /\ overlapped = {} /\ sent = <<>>
    /\ InsightsIdle
    /\ AnomalyIdle /\ RecommendIdle /\ TrendIdle

NextSchedule ==
    \/ StartMonitoring
    \/ BudgetTimer
    \/ SpikeTimer
    \/ SummaryTimeout
    \/ SummaryInterval
    \/ HalfHourPasses

SpecSchedule == InitSchedule /\ [][NextSchedule]_vars

Invocations(job) == { i \in fired : i.job = job }

\* C23: once monitoring has started, sendDailySummary is first invoked at
\* the next 09:00 local time and then every 24 hours, so that it runs once
\* per day at 09:00 local time and at no other time; budget checks fire
\* every 60 minutes and spike detection every 30 minutes.
C23_SummaryAtNineEveryDay ==
    /\ \A i \in Invocations("sendDailySummary") :
          /\ i.local % halfHoursPerDay = nineAMHalfHours
          /\ \A j \in Invocations("sendDailySummary") :
                i.at < j.at => j.at - i.at = halfHoursPerDay * ((j.at - i.at) \div halfHoursPerDay)
    /\ timers # NoResult =>
          \* no 09:00 local time since the start has been left out
          /\ \A t \in (timers.startedAt + 1)..(wall - 1) :
                localTime(t) % halfHoursPerDay = nineAMHalfHours
                   => \E i \in Invocations("sendDailySummary") : i.at = t
          /\ \A i \in Invocations("checkBudgetThresholds") :
                (i.at - timers.startedAt) % 2 = 0
          /\ Cardinality(Invocations("checkBudgetThresholds"))
                >= (wall - 1 - timers.startedAt) \div 2
          /\ Cardinality(Invocations("detectCostSpikes")) >= wall - 1 - timers.startedAt

\* ----------------------------------------------------------------------
\* Claims C4, C5 and C6
\* ----------------------------------------------------------------------
BudgetAlerts == { i \in 1..Len(sent) : sent[i].kind = "budget" }

SamePair(i, j) ==
    /\ sent[i].budget = sent[j].budget
    /\ sent[i].threshold = sent[j].threshold

\* C4: while no two runs of checkBudgetThresholds have overlapped, two
\* budget alerts for the same budget and threshold percentage are always
\* more than 24 hours apart.
C4_OneAlertPerDaySequentialRuns ==
    overlapped = {} =>
        \A i, j \in BudgetAlerts :
            (i < j /\ SamePair(i, j)) => sent[j].at - sent[i].at > oneDayHours

\* C5: two runs of checkBudgetThresholds that were in flight together never
\* both send an alert for the same budget and threshold percentage.
C5_OneAlertAcrossOverlappingRuns ==
    \A i, j \in BudgetAlerts :
        (i < j /\ SamePair(i, j) /\ sent[i].run # sent[j].run) =>
            {sent[i].run, sent[j].run} \notin overlapped

SpikeAlerts == { i \in 1..Len(sent) : sent[i].kind = "spike" }

\* C6: with the cost data unchanged, a run of detectCostSpikes that starts
\* after an earlier run has returned sends no spike alert for a cloud
\* provider and service that the earlier run alerted on.
C6_SecondRunDoesNotRealert ==
    \A i, j \in SpikeAlerts :
        (/\ i < j
         /\ sent[i].cloudProvider = sent[j].cloudProvider
         /\ sent[i].serviceName = sent[j].serviceName
         /\ {sent[i].run, sent[j].run} \notin overlapped)
        => sent[i].run = sent[j].run

====
